---- MODULE Spec2Model ----
(***************************************************************************)
(* GemForge-MCP: the tool dispatcher, the four tool handlers, the model    *)
(* selector, the execution engine (executeRequest) and the response        *)
(* formatter, as a state machine over tool requests, a file system, a      *)
(* millisecond clock and the upstream generateContent calls.               *)
(***************************************************************************)
EXTENDS Integers, Sequences, FiniteSets, TLC

VARIABLES
    pc,      \* per request: the position of its async handler
    req,     \* per request: the ToolRequest (name + arguments)
    fs,      \* the file system: absolute path -> content
    clock,   \* Date.now(), in milliseconds
    tmp,     \* per request: temp file path the handler holds ("" = none)
    created, \* per request: the temp file paths this request wrote
    target,  \* per request: targetModelId chosen by the handler
    calls,   \* per request: the upstream generateContent calls, in order
    execs,   \* per request: the top-level executeRequest invocations
    frame,   \* per request: the running executeRequest frame
    payload, \* per request: the SDK request object built by the handler
    resp,    \* per request: what the last executeRequest returned
    out,     \* per request: how the dispatcher's handler ended
    did,     \* per request: kinds of I/O done so far
    failed,  \* per request: an exception reached an outermost catch block
    acc,     \* per request: loop index / accumulated content of a file loop
    selIn,   \* model selector harness: the input (tool name, arguments)
    selOut,  \* model selector harness: the result
    fnIn,    \* pure-function harness: the input
    fnOut    \* pure-function harness: <<>> before, <<result>> after the call

mainVars == <<pc, req, fs, clock, tmp, created, target, calls, execs, frame,
              payload, resp, out, did, failed, acc>>
selVars == <<selIn, selOut>>
fnVars == <<fnIn, fnOut>>
pureVars == <<selIn, selOut, fnIn, fnOut>>
vars == <<pc, req, fs, clock, tmp, created, target, calls, execs, frame,
          payload, resp, out, did, failed, acc, selIn, selOut, fnIn, fnOut>>

(***************************************************************************)
(* Bounds of the model.                                                    *)
(***************************************************************************)
MaxClock == 2

Reqs == {1, 2}

(***************************************************************************)
(* JavaScript values and string helpers.                                   *)
(***************************************************************************)
Undef == "<undefined>"

Truthy(v) == v # Undef /\ v # ""

IsString(v) == v # Undef

Includes(s, sub) ==
    \E i \in 1..(Len(s) - Len(sub) + 1) : SubSeq(s, i, i + Len(sub) - 1) = sub

StartsWith(s, pre) == Len(s) >= Len(pre) /\ SubSeq(s, 1, Len(pre)) = pre

UpperChars == "ABCDEFGHIJKLMNOPQRSTUVWXYZ"

LowerChars == "abcdefghijklmnopqrstuvwxyz"

LowerChar(c) ==
    IF \E i \in 1..Len(UpperChars) : SubSeq(UpperChars, i, i) = c
    THEN LET i == CHOOSE j \in 1..Len(UpperChars) : SubSeq(UpperChars, j, j) = c
         IN  SubSeq(LowerChars, i, i)
    ELSE c

RECURSIVE ToLower(_)
ToLower(s) ==
    IF Len(s) = 0 THEN ""
    ELSE LowerChar(SubSeq(s, 1, 1)) \o ToLower(SubSeq(s, 2, Len(s)))

\* s.split('.').pop(): the text after the last '.', the whole string without one
RECURSIVE AfterLastDot(_)
AfterLastDot(s) ==
    IF \E i \in 1..Len(s) : SubSeq(s, i, i) = "."
    THEN LET i == CHOOSE j \in 1..Len(s) : SubSeq(s, j, j) = "."
         IN  AfterLastDot(SubSeq(s, i + 1, Len(s)))
    ELSE s

\* path.basename for '/'-separated paths
RECURSIVE Basename(_)
Basename(s) ==
    IF \E i \in 1..Len(s) : SubSeq(s, i, i) = "/"
    THEN LET i == CHOOSE j \in 1..Len(s) : SubSeq(s, j, j) = "/"
         IN  Basename(SubSeq(s, i + 1, Len(s)))
    ELSE s

(***************************************************************************)
(* Tool names and model identifiers.                                       *)
(***************************************************************************)
GEM_SEARCH == "gemini_search"

GEM_REASON == "gemini_reason"

GEM_CODE == "gemini_code"

GEM_FILEOPS == "gemini_fileops"

ToolNames == {GEM_SEARCH, GEM_REASON, GEM_CODE, GEM_FILEOPS}

FLASH_001 == "gemini-2.0-flash-001"

FLASH_LITE_001 == "gemini-2.0-flash-lite-001"

PRO_25_EXP == "gemini-2.5-pro-exp-03-25"

FLASH_25_PREVIEW == "gemini-2.5-flash-preview-04-17"

PRO_15_002 == "gemini-1.5-pro-002"

PRO_15 == "gemini-1.5-pro"

(***************************************************************************)
(* Model selector (model-selector.js).                                     *)
(***************************************************************************)
MODEL_FALLBACKS ==
    [k \in {"gemini-2.5-pro-latest", "gemini-2.5-flash-latest",
            "gemini-2.5-pro-preview-03-25", "gemini-2.5-flash-preview-04-17",
            "gemini-2.5-flash-preview-05-15", "gemini-2.5-pro", "gemini-2.5-flash",
            "gemini-2.0-pro", "gemini-2.0-flash", "gemini-2.0-flash-lite",
            "gemini-1.5-pro", "gemini-1.5-pro-latest", "gemini-1.5-flash",
            "gemini-1.5-flash-latest", "gemini-2.0-flash-thinking-exp-01-21",
            "gemini-2.0-flash-thinking", "gemini-2.0-flash-thinking-latest",
            "gemini-2.0-flash-reasoning", "gemini-2.0-pro-reasoning"} |->
        CASE k \in {"gemini-2.5-pro-latest", "gemini-2.5-pro-preview-03-25",
                    "gemini-2.5-pro"} -> PRO_25_EXP
          [] k \in {"gemini-2.5-flash-latest", "gemini-2.5-flash-preview-04-17",
                    "gemini-2.5-flash-preview-05-15", "gemini-2.5-flash"}
                -> FLASH_25_PREVIEW
          [] k \in {"gemini-2.0-pro", "gemini-2.0-flash", "gemini-1.5-flash",
                    "gemini-1.5-flash-latest"} -> FLASH_001
          [] k = "gemini-2.0-flash-lite" -> FLASH_LITE_001
          [] OTHER -> PRO_15_002]

\* faulty variant of getUsableModelId: the identifier is passed through
KeepModelId(modelId) == modelId

getUsableModelId(modelId) ==
    IF modelId \in DOMAIN MODEL_FALLBACKS THEN MODEL_FALLBACKS[modelId]
    ELSE IF Includes(modelId, "preview") \/ Includes(modelId, "exp")
    THEN IF Includes(modelId, "2.5-pro") THEN PRO_25_EXP
         ELSE IF Includes(modelId, "2.5-flash") THEN FLASH_25_PREVIEW
         ELSE IF Includes(modelId, "pro") THEN PRO_15_002
         ELSE IF Includes(modelId, "flash-lite") THEN FLASH_LITE_001
         ELSE FLASH_001
    ELSE IF ~Includes(modelId, "-001") /\ ~Includes(modelId, "-002")
    THEN IF Includes(modelId, "2.5-pro") THEN PRO_25_EXP
         ELSE IF Includes(modelId, "2.5-flash") THEN FLASH_25_PREVIEW
         ELSE IF Includes(modelId, "1.5-pro") THEN PRO_15_002
         ELSE IF Includes(modelId, "2.0-flash-lite") THEN FLASH_LITE_001
         ELSE IF Includes(modelId, "2.0-flash") THEN FLASH_001
         ELSE modelId
    ELSE modelId

selectSearchModel(args) ==
    IF Truthy(args.model_id) THEN getUsableModelId(args.model_id)
    ELSE getUsableModelId("gemini-2.0-flash-001")

selectReasonModel(args) ==
    IF Truthy(args.model_id) THEN getUsableModelId(args.model_id)
    ELSE getUsableModelId("gemini-2.5-pro-exp-03-25")

selectCodeModel(args) ==
    IF Truthy(args.model_id) THEN getUsableModelId(args.model_id)
    ELSE getUsableModelId("gemini-2.5-pro-exp-03-25")

\* faulty variant of selectFileopsModel: the balanced model for every request
selectFileopsBalanced(args) == getUsableModelId("gemini-2.0-flash-001")

selectFileopsModel(args) ==
    IF Truthy(args.model_id) THEN getUsableModelId(args.model_id)
    ELSE IF args.use_large_context_model THEN getUsableModelId("gemini-1.5-pro-002")
    ELSE getUsableModelId("gemini-2.0-flash-lite-001")

selectToolModel(toolName, args) ==
    CASE toolName = GEM_SEARCH -> selectSearchModel(args)
      [] toolName = GEM_REASON -> selectReasonModel(args)
      [] toolName = GEM_CODE -> selectCodeModel(args)
      [] toolName = GEM_FILEOPS -> selectFileopsModel(args)
      [] OTHER -> getUsableModelId("gemini-2.0-flash-001")

(***************************************************************************)
(* Exceptions, tool results and the catch blocks.                          *)
(***************************************************************************)
NoErr == [mcp |-> FALSE, isErr |-> FALSE, code |-> "", status |-> 0, msg |-> ""]

\* new McpError(code, message)
McpErr(code, msg) ==
    [mcp |-> TRUE, isErr |-> TRUE, code |-> code, status |-> 0, msg |-> msg]

\* a TypeError / Error raised by the runtime or by fs
RawErr(msg) ==
    [mcp |-> FALSE, isErr |-> TRUE, code |-> "", status |-> 0, msg |-> msg]

NoOut == [kind |-> "none", isError |-> FALSE, text |-> "", modelId |-> "", err |-> NoErr]

Thrown(e) ==
    [kind |-> "thrown", isError |-> FALSE, text |-> "", modelId |-> "", err |-> e]

\* faulty variant of ErrorToolResult: the isError flag is not set
ErrorToolResultNoFlag(e) ==
    [kind |-> "result", isError |-> FALSE,
     text |-> "Error: " \o (IF e.isErr THEN e.msg ELSE "Unknown error"),
     modelId |-> "", err |-> NoErr]

\* { content: [{ type: 'text', text: `Error: ...` }], isError: true }
ErrorToolResult(e) ==
    [kind |-> "result", isError |-> TRUE,
     text |-> "Error: " \o (IF e.isErr THEN e.msg ELSE "Unknown error"),
     modelId |-> "", err |-> NoErr]

\* the outer catch of every handler: McpError is rethrown, anything else is
\* turned into an error ToolResult
HandlerCatch(e) == IF e.mcp THEN Thrown(e) ELSE ErrorToolResult(e)

\* the catch of the CallToolRequestSchema handler (the outermost wrapper)
DispatcherCatch(o) ==
    IF o.kind = "thrown"
    THEN IF o.err.mcp THEN o ELSE ErrorToolResult(o.err)
    ELSE o

(***************************************************************************)
(* The file system.                                                        *)
(***************************************************************************)
Cwd == "/work"

TmpDir == "/tmp"

DirMark == "<directory>"

\* path.resolve: relative paths are taken from the working directory
Resolve(p) == IF StartsWith(p, "/") THEN p ELSE Cwd \o "/" \o p

InitFs ==
    [p \in {"/work/a.txt", "/work/b.txt", "/work/big.pdf", "/work/pack.xml",
            "/work/repo"} |->
        CASE p = "/work/a.txt" -> "alpha"
          [] p = "/work/b.txt" -> "beta"
          [] p = "/work/big.pdf" -> "%PDF"
          [] p = "/work/pack.xml" -> "<repomix>packed</repomix>"
          [] OTHER -> DirMark]

\* fs.access succeeds
Accessible(f, p) == Resolve(p) \in DOMAIN f

\* faulty variant of fileExists: every path is reported present
AlwaysExists(f, p) == TRUE

\* fileExists(filePath): fs.access wrapped in try/catch
fileExists(f, p) == Accessible(f, p)

\* fs.readFile succeeds (the path exists and is no directory)
Readable(f, p) == Accessible(f, p) /\ f[Resolve(p)] # DirMark

\* isLargeFile(filePath): by the extension of the (first) path
isLargeFile(paths) ==
    LET ext == AfterLastDot(ToLower(paths[1]))
    IN  ext \in {"pdf", "png", "jpg", "jpeg"}

(***************************************************************************)
(* file-handler: MIME types and file parts.                                *)
(***************************************************************************)
MIME_TYPES ==
    [k \in {
            ".jpg", ".jpeg", ".png", ".gif", ".webp", ".svg", ".tiff",
            ".tif", ".bmp", ".pdf", ".doc", ".docx", ".xls", ".xlsx",
            ".ppt", ".pptx", ".odt", ".ods", ".odp", ".txt", ".csv",
            ".md", ".html", ".htm", ".xml", ".json", ".yaml", ".yml",
            ".js", ".ts", ".py", ".java", ".c", ".cpp", ".cs", ".go",
            ".rb", ".php", ".astro", ".svelte", ".vue", ".tf",
            ".tfvars", ".bicep", ".shader", ".gd", ".toml", ".config",
            ".gitignore", ".env", ".jsx", ".tsx", ".swift", ".kt",
            ".rs", ".scala", ".dart", ".sql", ".sh", ".bash", ".ps1",
            ".groovy", ".gradle", ".mp3", ".wav", ".ogg", ".flac",
            ".aac", ".mp4", ".webm", ".avi", ".mov", ".mkv", ".zip",
            ".rar", ".tar", ".gz", ".7z", ".bin", ".exe", ".wasm"} |->
        CASE k \in {".jpg", ".jpeg"} -> "image/jpeg"
          [] k = ".png" -> "image/png"
          [] k = ".gif" -> "image/gif"
          [] k = ".webp" -> "image/webp"
          [] k = ".svg" -> "image/svg+xml"
          [] k \in {".tiff", ".tif"} -> "image/tiff"
          [] k = ".bmp" -> "image/bmp"
          [] k = ".pdf" -> "application/pdf"
          [] k = ".doc" -> "application/msword"
          [] k = ".docx" -> "application/vnd.openxmlformats-officedocument.wordprocessingml.document"
          [] k = ".xls" -> "application/vnd.ms-excel"
          [] k = ".xlsx" -> "application/vnd.openxmlformats-officedocument.spreadsheetml.sheet"
          [] k = ".ppt" -> "application/vnd.ms-powerpoint"
          [] k = ".pptx" -> "application/vnd.openxmlformats-officedocument.presentationml.presentation"
          [] k = ".odt" -> "application/vnd.oasis.opendocument.text"
          [] k = ".ods" -> "application/vnd.oasis.opendocument.spreadsheet"
          [] k = ".odp" -> "application/vnd.oasis.opendocument.presentation"
          [] k \in {".txt", ".xml", ".json", ".yaml", ".yml", ".tf", ".tfvars", ".bicep", ".shader", ".gd", ".config", ".gitignore", ".env", ".ps1"} -> "text/plain"
          [] k = ".csv" -> "text/csv"
          [] k = ".md" -> "text/markdown"
          [] k \in {".html", ".htm", ".astro", ".svelte", ".vue"} -> "text/html"
          [] k \in {".js", ".jsx"} -> "text/javascript"
          [] k \in {".ts", ".tsx"} -> "text/typescript"
          [] k = ".py" -> "text/x-python"
          [] k = ".java" -> "text/x-java-source"
          [] k = ".c" -> "text/x-c"
          [] k = ".cpp" -> "text/x-c++"
          [] k = ".cs" -> "text/x-csharp"
          [] k = ".go" -> "text/x-go"
          [] k = ".rb" -> "text/x-ruby"
          [] k = ".php" -> "application/x-php"
          [] k = ".toml" -> "application/toml"
          [] k = ".swift" -> "text/x-swift"
          [] k = ".kt" -> "text/x-kotlin"
          [] k = ".rs" -> "text/x-rust"
          [] k = ".scala" -> "text/x-scala"
          [] k = ".dart" -> "text/x-dart"
          [] k = ".sql" -> "text/x-sql"
          [] k \in {".sh", ".bash"} -> "text/x-shellscript"
          [] k \in {".groovy", ".gradle"} -> "text/x-groovy"
          [] k = ".mp3" -> "audio/mpeg"
          [] k = ".wav" -> "audio/wav"
          [] k = ".ogg" -> "audio/ogg"
          [] k = ".flac" -> "audio/flac"
          [] k = ".aac" -> "audio/aac"
          [] k = ".mp4" -> "video/mp4"
          [] k = ".webm" -> "video/webm"
          [] k = ".avi" -> "video/x-msvideo"
          [] k = ".mov" -> "video/quicktime"
          [] k = ".mkv" -> "video/x-matroska"
          [] k = ".zip" -> "application/zip"
          [] k = ".rar" -> "application/x-rar-compressed"
          [] k = ".tar" -> "application/x-tar"
          [] k = ".gz" -> "application/gzip"
          [] k = ".7z" -> "application/x-7z-compressed"
          [] k = ".exe" -> "application/x-msdownload"
          [] k = ".wasm" -> "application/wasm"
          [] OTHER -> "application/octet-stream"]

\* path.extname: from the last '.' of the base name, "" without one or when the
\* only '.' is the first character
ExtName(p) ==
    LET b == Basename(p)
        dots == {i \in 1..Len(b) : SubSeq(b, i, i) = "."}
    IN  IF dots \subseteq {1} THEN "" ELSE "." \o AfterLastDot(b)

\* isUrl(path)
isUrl(p) == StartsWith(p, "http://") \/ StartsWith(p, "https://") \/ StartsWith(p, "gs://")

\* the text of s before the first character of stops, all of s without one
RECURSIVE TakeUntil(_, _)
TakeUntil(s, stops) ==
    IF Len(s) = 0 \/ SubSeq(s, 1, 1) \in stops THEN ""
    ELSE SubSeq(s, 1, 1) \o TakeUntil(SubSeq(s, 2, Len(s)), stops)

\* faulty variant of getMimeType: nothing is returned for an unknown extension
NoDefaultMime(p) ==
    LET ext == ToLower(ExtName(p))
    IN  IF ext \in DOMAIN MIME_TYPES THEN MIME_TYPES[ext] ELSE Undef

\* getMimeType(filePath): undefined for a falsy path; for a URL by the
\* extension of its path (for gs:// what follows the bucket name, for http(s)
\* the pathname of new URL: from the first '/' after the host up to the query
\* or fragment), application/octet-stream when new URL raises (no host, or a
\* host that is no host name); for a local path by path.extname;
\* application/octet-stream when the extension is not in MIME_TYPES
getMimeType(p) ==
    LET isHttp == StartsWith(p, "http://") \/ StartsWith(p, "https://")
        rest == IF StartsWith(p, "https://") THEN SubSeq(p, 9, Len(p))
                ELSE IF StartsWith(p, "http://") THEN SubSeq(p, 8, Len(p))
                ELSE SubSeq(p, 6, Len(p))
        host == TakeUntil(rest, {"/", "?", "#"})
        urlThrows == host = "" \/ Includes(host, "[") \/ Includes(host, " ")
        afterHost == SubSeq(rest, Len(host) + 1, Len(rest))
        pathname == IF TakeUntil(afterHost, {"?", "#"}) = "" THEN "/"
                    ELSE TakeUntil(afterHost, {"?", "#"})
        bucket == TakeUntil(rest, {"/"})
        gsPath == IF Len(bucket) = Len(rest) THEN ""
                  ELSE SubSeq(rest, Len(bucket) + 2, Len(rest))
        urlPath == IF StartsWith(p, "gs://") THEN gsPath
                   ELSE IF isHttp THEN pathname
                   ELSE p
        ext == ToLower(ExtName(urlPath))
    IN  IF ~Truthy(p) THEN Undef
        ELSE IF isHttp /\ urlThrows THEN "application/octet-stream"
        ELSE IF ext \in DOMAIN MIME_TYPES THEN MIME_TYPES[ext]
        ELSE "application/octet-stream"

FILE_TYPE_CATEGORIES ==
    "image/jpeg" :> "image"
    @@ "image/png" :> "image"
    @@ "image/gif" :> "image"
    @@ "image/webp" :> "image"
    @@ "image/svg+xml" :> "image"
    @@ "image/tiff" :> "image"
    @@ "image/bmp" :> "image"
    @@ "application/pdf" :> "document"
    @@ "application/msword" :> "document"
    @@ "application/vnd.openxmlformats-officedocument.wordprocessingml.document" :> "document"
    @@ "application/vnd.ms-excel" :> "spreadsheet"
    @@ "application/vnd.openxmlformats-officedocument.spreadsheetml.sheet" :> "spreadsheet"
    @@ "application/vnd.ms-powerpoint" :> "presentation"
    @@ "application/vnd.openxmlformats-officedocument.presentationml.presentation" :> "presentation"
    @@ "application/vnd.oasis.opendocument.text" :> "document"
    @@ "application/vnd.oasis.opendocument.spreadsheet" :> "spreadsheet"
    @@ "application/vnd.oasis.opendocument.presentation" :> "presentation"
    @@ "text/plain" :> "text"
    @@ "text/csv" :> "data"
    @@ "text/markdown" :> "text"
    @@ "text/html" :> "code"
    @@ "application/xml" :> "code"
    @@ "text/plain+xml" :> "text"
    @@ "application/json" :> "data"
    @@ "application/x-yaml" :> "data"
    @@ "application/toml" :> "data"
    @@ "text/javascript" :> "code"
    @@ "text/typescript" :> "code"
    @@ "text/x-python" :> "code"
    @@ "text/x-java-source" :> "code"
    @@ "text/x-c" :> "code"
    @@ "text/x-c++" :> "code"
    @@ "text/x-csharp" :> "code"
    @@ "text/x-go" :> "code"
    @@ "text/x-ruby" :> "code"
    @@ "application/x-php" :> "code"
    @@ "text/x-swift" :> "code"
    @@ "text/x-kotlin" :> "code"
    @@ "text/x-rust" :> "code"
    @@ "text/x-scala" :> "code"
    @@ "text/x-dart" :> "code"
    @@ "text/x-sql" :> "code"
    @@ "text/x-shellscript" :> "code"
    @@ "text/x-groovy" :> "code"
    @@ "audio/mpeg" :> "audio"
    @@ "audio/wav" :> "audio"
    @@ "audio/ogg" :> "audio"
    @@ "audio/flac" :> "audio"
    @@ "audio/aac" :> "audio"
    @@ "video/mp4" :> "video"
    @@ "video/webm" :> "video"
    @@ "video/x-msvideo" :> "video"
    @@ "video/quicktime" :> "video"
    @@ "video/x-matroska" :> "video"
    @@ "application/zip" :> "archive"
    @@ "application/x-rar-compressed" :> "archive"
    @@ "application/x-tar" :> "archive"
    @@ "application/gzip" :> "archive"
    @@ "application/x-7z-compressed" :> "archive"
    @@ "application/octet-stream" :> "binary"

CategoryOf(mimeType) ==
    IF mimeType \in DOMAIN FILE_TYPE_CATEGORIES THEN FILE_TYPE_CATEGORIES[mimeType]
    ELSE "unknown"

\* getFileTypeCategory(filePathOrMimeType): an input that holds a '/' is
\* looked up as a MIME type, any other input by the MIME type of its extension
getFileTypeCategory(filePathOrMimeType) ==
    IF Includes(filePathOrMimeType, "/") THEN CategoryOf(filePathOrMimeType)
    ELSE IF ~Truthy(getMimeType(filePathOrMimeType)) THEN "unknown"
    ELSE CategoryOf(getMimeType(filePathOrMimeType))

\* fileBuffer.toString('base64'), kept symbolic
Base64(content) == "base64(" \o content \o ")"

TextPart(t) == [kind |-> "text", text |-> t, mimeType |-> "", data |-> ""]

InlineDataPart(mimeType, data) ==
    [kind |-> "inlineData", text |-> "", mimeType |-> mimeType, data |-> data]

FileDataPart(mimeType, uri) ==
    [kind |-> "fileData", text |-> "", mimeType |-> mimeType, data |-> uri]

IsFilePart(part) == part.kind \in {"inlineData", "fileData"}

\* createFilePart(filePath): a read failure is caught and becomes a text part
createFilePart(f, filePath) ==
    IF isUrl(filePath) THEN FileDataPart(getMimeType(filePath), filePath)
    ELSE IF Readable(f, filePath)
    THEN InlineDataPart(getMimeType(filePath), Base64(f[Resolve(filePath)]))
    ELSE TextPart("[Error processing file: " \o filePath \o "]")

\* faulty variant of createFilePartsBatch: a missing file ends the batch
RECURSIVE StopAtMissing(_, _)
StopAtMissing(f, filePaths) ==
    IF filePaths = <<>> \/ ~fileExists(f, Head(filePaths)) THEN <<>>
    ELSE <<createFilePart(f, Head(filePaths))>> \o StopAtMissing(f, Tail(filePaths))

\* createFilePartsBatch(filePaths): one part per path, in order
RECURSIVE createFilePartsBatch(_, _)
createFilePartsBatch(f, filePaths) ==
    IF filePaths = <<>> THEN <<>>
    ELSE <<IF ~fileExists(f, Head(filePaths))
           THEN TextPart("[Error: File not found: " \o Head(filePaths) \o "]")
           ELSE createFilePart(f, Head(filePaths))>>
         \o createFilePartsBatch(f, Tail(filePaths))

\* preparePartsWithFiles(filePath, text): the file parts, then the text
preparePartsWithFiles(f, filePaths, text) ==
    LET fileParts == IF filePaths # <<>> /\ Truthy(filePaths[1])
                     THEN createFilePartsBatch(f, filePaths) ELSE <<>>
        parts == fileParts \o (IF Truthy(text) THEN <<TextPart(text)>> ELSE <<>>)
    IN  IF parts = <<>> THEN <<TextPart("Please provide a valid file or text input.")>>
        ELSE parts

(***************************************************************************)
(* Tool requests.                                                          *)
(***************************************************************************)
NoFile == [kind |-> "none", paths |-> <<>>]

\* a file_path that is neither a string nor an array
OtherFile == [kind |-> "other", paths |-> <<>>]

OneFile(p) == [kind |-> "string", paths |-> <<p>>]

FileArray(ps) == [kind |-> "array", paths |-> ps]

\* request.params: the tool name and the arguments object (hasArgs: present)
ToolRequest(name, hasArgs, text, fp, model, dir, cb, large) ==
    [name |-> name, hasArgs |-> hasArgs, text |-> text, file_path |-> fp,
     model_id |-> model, directory_path |-> dir, codebase_path |-> cb,
     use_large_context_model |-> large]

NoRequest == ToolRequest("", FALSE, Undef, NoFile, Undef, Undef, Undef, FALSE)

OtherRequests ==
    {ToolRequest(n, TRUE, "hi", NoFile, Undef, Undef, Undef, FALSE) :
        n \in {"resources/list", "prompts/list", "gemini_analyze"}}

SearchRequests ==
    {ToolRequest(GEM_SEARCH, TRUE, q, fp, m, Undef, Undef, FALSE) :
        q \in {Undef, "test"}, fp \in {NoFile, OneFile("a.txt")},
        m \in {Undef, "gemini-2.5-pro"}}
    \cup {ToolRequest(GEM_SEARCH, FALSE, Undef, NoFile, Undef, Undef, Undef, FALSE)}

ReasonRequests ==
    {ToolRequest(GEM_REASON, TRUE, q, fp, m, Undef, Undef, FALSE) :
        q \in {Undef, "why?"},
        fp \in {NoFile, OneFile("a.txt"), OneFile("big.pdf")},
        m \in {Undef, "gemini-2.0-flash", "gemini-1.5-pro"}}

CodeRequests ==
    {ToolRequest(GEM_CODE, TRUE, q, NoFile, m, d, c, FALSE) :
        q \in {Undef, "how?"}, m \in {Undef, "gemini-2.0-flash"},
        d \in {Undef, "repo", "nodir"}, c \in {Undef, "pack.xml", "gone.xml"}}

FileopsRequests ==
    {ToolRequest(GEM_FILEOPS, TRUE, Undef, fp, m, Undef, Undef, l) :
        fp \in {NoFile, OtherFile, OneFile("a.txt"), OneFile("missing.txt"),
                OneFile("big.pdf"),
                FileArray(<<>>), FileArray(<<"a.txt">>), FileArray(<<"a.txt", "b.txt">>),
                FileArray(<<"big.pdf", "a.txt">>), FileArray(<<"a.txt", "missing.txt">>)},
        m \in {Undef, "gemini-2.5-pro"}, l \in BOOLEAN}

ToolRequests ==
    OtherRequests \cup SearchRequests \cup ReasonRequests \cup CodeRequests
    \cup FileopsRequests

(***************************************************************************)
(* The upstream API: what one generateContent call can produce.            *)
(***************************************************************************)
NonString == "<a non-string value>"

\* result.response: what its text() accessor does, and candidates[0] part text
RawResponses ==
    {[ok |-> TRUE, textKind |-> k, text |-> "Paris.", candText |-> "Paris (cand).",
      textErr |-> "Response was blocked"] :
        k \in {"string", "empty", "throws", "nonstring"}}

NoRaw == [ok |-> TRUE, textKind |-> "none", text |-> "", candText |-> "", textErr |-> ""]

\* what generateContent rejects with: an Error (isErr) or any thrown value
UpstreamErrors ==
    {[ok |-> FALSE, isErr |-> TRUE, status |-> 429, msg |-> "Too Many Requests"],
     [ok |-> FALSE, isErr |-> TRUE, status |-> 0, msg |-> "Rate Limit reached"],
     [ok |-> FALSE, isErr |-> TRUE, status |-> 404, msg |-> "model not found"],
     [ok |-> FALSE, isErr |-> TRUE, status |-> 403, msg |-> "permission denied"],
     [ok |-> FALSE, isErr |-> TRUE, status |-> 400, msg |-> "Bad Request"],
     [ok |-> FALSE, isErr |-> TRUE, status |-> 500, msg |-> "internal failure"],
     [ok |-> FALSE, isErr |-> FALSE, status |-> 429, msg |-> "quota"]}

SdkErr(o) ==
    [mcp |-> FALSE, isErr |-> o.isErr, code |-> "", status |-> o.status, msg |-> o.msg]

(***************************************************************************)
(* How a handler ends.                                                     *)
(***************************************************************************)
\* the handler returns the ToolResult o
Return(r, o) ==
    /\ out' = [out EXCEPT ![r] = DispatcherCatch(o)]
    /\ UNCHANGED failed

\* the exception e reaches the handler's outer catch
Throw(r, e) ==
    /\ out' = [out EXCEPT ![r] = DispatcherCatch(HandlerCatch(e))]
    /\ failed' = [failed EXCEPT ![r] = TRUE]

Goto(r, p) == pc' = [pc EXCEPT ![r] = p]

Did(r, k) == did' = [did EXCEPT ![r] = @ \cup {k}]

(***************************************************************************)
(* The dispatcher: server.setRequestHandler(CallToolRequestSchema, ...).   *)
(***************************************************************************)
\* the McpError for the unsupported methods and for unknown tool names
UnknownTool(name) ==
    IF name \in {"resources/list", "prompts/list"}
    THEN McpErr("MethodNotFound", "Method '" \o name \o "' is not supported by this server."
                \o " Please use one of the available tools listed in the tools endpoint.")
    ELSE McpErr("MethodNotFound", "Unknown tool: " \o name
                \o ". Available tools: gemini_search, gemini_reason, gemini_code, gemini_fileops")

Dispatch(r) ==
    /\ pc[r] = "recv"
    /\ IF req[r].name \in ToolNames
       THEN /\ Goto(r, req[r].name)
            /\ UNCHANGED <<out, failed>>
       ELSE \* resources/list, prompts/list and unknown tools: MethodNotFound,
            \* caught by the dispatcher's own catch and rethrown
            /\ out' = [out EXCEPT ![r] = DispatcherCatch(Thrown(UnknownTool(req[r].name)))]
            /\ failed' = [failed EXCEPT ![r] = TRUE]
            /\ Goto(r, "done")
    /\ UNCHANGED <<req, fs, clock, tmp, created, target, calls, execs, frame, payload, resp,
                   did, acc, pureVars>>

(***************************************************************************)
(* handleDirectSearchAlt (the search tool).                                *)
(***************************************************************************)
SearchValidate(r) ==
    /\ pc[r] = GEM_SEARCH
    /\ IF ~req[r].hasArgs \/ ~IsString(req[r].text)
       THEN /\ Throw(r, McpErr("InvalidParams",
                                "Query parameter is required and must be a string"))
            /\ Goto(r, "done")
            /\ UNCHANGED target
       ELSE /\ Goto(r, IF req[r].file_path.kind # "none" THEN "s_file" ELSE "s_call")
            /\ target' = [target EXCEPT ![r] =
                 IF Truthy(req[r].model_id) THEN req[r].model_id
                 ELSE "gemini-2.0-flash-001"]
            /\ UNCHANGED <<out, failed>>
    /\ UNCHANGED <<req, fs, clock, tmp, created, calls, execs, frame, payload, resp, did,
                   acc, pureVars>>

\* await fileExists(file_path): logged only
SearchFileCheck(r) ==
    /\ pc[r] = "s_file"
    /\ Did(r, "fs")
    /\ Goto(r, "s_call")
    /\ UNCHANGED <<req, fs, clock, tmp, created, target, calls, execs, frame, payload, resp,
                   out, failed, acc, pureVars>>

\* responseText of the search handler
SearchText(raw) ==
    CASE raw.textKind = "string" -> raw.text
      [] raw.textKind = "empty" -> ""
      [] raw.textKind = "nonstring" -> NonString
      [] OTHER -> raw.candText

SearchResult(raw) ==
    [kind |-> "result", isError |-> FALSE, text |-> SearchText(raw),
     modelId |-> "", err |-> NoErr]

\* one generateContent call: the model named, the executeRequest invocation
\* it belongs to (0: none), the payload sent and what came back
CallRecord(model, top, isRetry, tools, parts, status, o) ==
    [model |-> model, top |-> top, isRetry |-> isRetry, tools |-> tools,
     parts |-> parts, status |-> status, o |-> o]

\* await model.generateContent(sdkRequest) and the rest of the handler
SearchCall(r) ==
    /\ pc[r] = "s_call"
    /\ \E o \in RawResponses \cup UpstreamErrors :
         /\ calls' = [calls EXCEPT ![r] =
              Append(@, CallRecord(target[r], 0, FALSE, TRUE, <<TextPart(req[r].text)>>,
                                   IF o.ok THEN "ok" ELSE "error", o))]
         /\ IF o.ok THEN Return(r, SearchResult(o)) ELSE Throw(r, SdkErr(o))
    /\ Did(r, "upstream")
    /\ Goto(r, "done")
    /\ UNCHANGED <<req, fs, clock, tmp, created, target, execs, frame, payload, resp, acc,
                   pureVars>>

(***************************************************************************)
(* Date.now() advances.                                                    *)
(***************************************************************************)
Tick ==
    /\ clock < MaxClock
    /\ clock' = clock + 1
    /\ UNCHANGED <<pc, req, fs, tmp, created, target, calls, execs, frame, payload, resp,
                   out, did, failed, acc, pureVars>>

(***************************************************************************)
(* sdk-mapper: transformFromSdkResponse, and response-formatter.           *)
(***************************************************************************)
\* the text of candidates[0].content.parts[0] of the internal response
\* responseText.replace(/\n/g, '\\n').replace(/\r/g, '\\r')
RECURSIVE EscapeNewlines(_)
EscapeNewlines(s) ==
    IF s = "" THEN ""
    ELSE LET c == SubSeq(s, 1, 1)
         IN  (IF c = "\n" THEN "\\n" ELSE IF c = "\r" THEN "\\r" ELSE c)
             \o EscapeNewlines(SubSeq(s, 2, Len(s)))

\* faulty variant of transformFromSdkResponse: the text accessor is ignored
CandidateText(raw) == raw.candText

\* transformFromSdkResponse(sdkResponse): the text of the one part of the one
\* candidate of the internal response (no response here has bounding boxes)
transformFromSdkResponse(raw) ==
    CASE raw.textKind = "string" ->
            IF raw.text = "" THEN "[Unable to extract text from response]"
            ELSE IF Includes(raw.text, "Selecting") /\ Includes(raw.text, "\"...")
            THEN EscapeNewlines(raw.text)
            ELSE raw.text
      [] raw.textKind = "empty" -> "[Unable to extract text from response]"
      [] raw.textKind = "throws" -> "[Error extracting text: " \o raw.textErr \o "]"
      [] OTHER -> "[Error extracting text: responseText.substring is not a function]"

\* the internal response with the raw response it was built from; nil: the
\* caller passed null or undefined instead of a response
NoResp == [raw |-> NoRaw, text |-> "", modelUsed |-> "", nil |-> FALSE]

\* faulty variant of BannerModel: the model the handler asked for
RequestedModel(response, modelId) == modelId

\* response.modelUsed || model.id
BannerModel(response, modelId) ==
    IF Truthy(response.modelUsed) THEN response.modelUsed ELSE modelId

\* extractMainContent(response): the text of the first candidate, a fixed
\* message when there is none (null, undefined, no candidates)
extractMainContent(response) ==
    IF ~response.nil /\ response.text # "" THEN response.text
    ELSE "No content found in response"

\* formatResponse(response, modelId, options, sdkResponse): the ToolResult, or
\* the TypeError of mainText.trim() when text() gave a truthy non-string, or
\* the TypeError of response.modelUsed when response is null or undefined
formatResponse(response, modelId) ==
    IF response.raw.textKind = "nonstring"
    THEN Thrown(RawErr("mainText.trim is not a function"))
    ELSE IF response.nil
    THEN Thrown(RawErr("Cannot read properties of null (reading 'modelUsed')"))
    ELSE LET mainText == IF response.raw.textKind = "string" /\ response.raw.text # ""
                         THEN response.raw.text
                         ELSE extractMainContent(response)
             fullText == IF mainText # "" THEN mainText
                         ELSE "No meaningful content could be extracted from the response."
         IN  [kind |-> "result", isError |-> FALSE,
              text |-> "**Model used: " \o BannerModel(response, modelId) \o "**\n\n"
                       \o fullText,
              modelId |-> BannerModel(response, modelId), err |-> NoErr]

(***************************************************************************)
(* api-executor: executeRequest(modelId, sdkPayload, isRetry).             *)
(***************************************************************************)
NoFrame == [model |-> "", isRetry |-> FALSE, top |-> 0]

NoPayload == [toolName |-> "", text |-> "", file |-> <<>>, parts |-> <<>>, sys |-> FALSE]

\* errorCode === 429 || /rate limit/i.test(errorMessage), for Error instances
IsRateLimit(e) ==
    e.isErr /\ (e.status = 429 \/ Includes(ToLower(e.msg), "rate limit"))

\* faulty variant of ShouldRetry: no substitution at all
NeverRetry(isRetry, modelId) == FALSE

\* faulty variant of ShouldRetry: a substitution for every model
RetryAnyModel(isRetry, modelId) == ~isRetry

\* !isRetry && modelId.includes('2.5-pro')
ShouldRetry(isRetry, modelId) == ~isRetry /\ Includes(modelId, "2.5-pro")

\* faulty variant of ClassifyError: the SDK exception is thrown on as it is
RethrowRaw(e, modelId) == e

\* the McpError the catch block of executeRequest throws
ClassifyError(e, modelId) ==
    IF ~e.isErr THEN McpErr("InternalError", "Error: Unknown error")
    ELSE IF IsRateLimit(e)
    THEN McpErr("InvalidParams",
                "Rate limit exceeded for " \o modelId \o ". Please try again later.")
    ELSE IF Includes(e.msg, "not found") \/ e.status = 404
    THEN McpErr("InvalidParams", "Model " \o modelId
                \o " not found or not supported. Please try a different model.")
    ELSE IF Includes(e.msg, "permission") \/ e.status = 403
    THEN McpErr("InvalidParams", "Permission denied for " \o modelId
                \o ". Check your API key and permissions.")
    ELSE IF e.status = 400 \/ Includes(ToLower(e.msg), "bad request")
            \/ Includes(e.msg, "Unknown name \"tools\"")
    THEN McpErr("InvalidParams", "Bad request for " \o modelId \o ": " \o e.msg)
    ELSE McpErr("InternalError", "Error: " \o e.msg)

\* the catch block of executeRequest calls executeRequest again (rate limit,
\* first attempt, 2.5-pro model)
Substitutes(e, isRetry, modelId) == IsRateLimit(e) /\ ShouldRetry(isRetry, modelId)

\* where a handler goes once its try/catch is left: handleCode has a finally
EndPc(r) == IF req[r].name = GEM_CODE /\ tmp[r] # "" THEN "c_cleanup" ELSE "done"

\* the handler calls executeRequest(modelId, payload) (isRetry defaults to false)
ExecStart(r, modelId) ==
    /\ frame' = [frame EXCEPT ![r] =
         [model |-> modelId, isRetry |-> FALSE, top |-> Len(execs[r]) + 1]]
    /\ execs' = [execs EXCEPT ![r] =
         Append(@, [model |-> modelId, state |-> "running", modelUsed |-> "",
                    raw |-> NoRaw])]

EndsWith(s, suf) == Len(s) >= Len(suf) /\ SubSeq(s, Len(s) - Len(suf) + 1, Len(s)) = suf

\* transformToSdkFormat: the file is read as text when its MIME type or its
\* extension says XML, JSON or YAML
ReadAsText(p) ==
    \/ getMimeType(p) \in {"application/xml", "application/json", "application/x-yaml"}
    \/ \E suf \in {".xml", ".json", ".yaml", ".yml"} : EndsWith(ToLower(p), suf)

IsRepomixXml(p, content) ==
    /\ Includes(p, "repomix") \/ Includes(content, "<repomix>")
        \/ Includes(content, "<directory_structure>")
    /\ EndsWith(ToLower(p), ".xml")

\* transformToSdkFormat({file_context}): the parts of one file context. A URL,
\* a file read as text and a failure give a text part; a Repomix XML file and
\* every other readable file give an inline data part.
FileContextPart(f, p) ==
    IF isUrl(p)
    THEN TextPart("[URL reference: " \o p \o "]\n\nPlease access and process this URL.")
    ELSE IF ~Readable(f, p) THEN TextPart("[Error processing file: " \o p \o "]")
    ELSE IF ReadAsText(p)
    THEN (IF IsRepomixXml(p, f[Resolve(p)])
          THEN InlineDataPart("text/plain", Base64(f[Resolve(p)]))
          ELSE TextPart(f[Resolve(p)]))
    ELSE InlineDataPart(getMimeType(p), Base64(f[Resolve(p)]))

\* processedRequest.contents[0].parts.filter(p => p.inlineData || p.fileData)
RECURSIVE FileContextFileParts(_, _)
FileContextFileParts(f, paths) ==
    IF paths = <<>> THEN <<>>
    ELSE (IF IsFilePart(FileContextPart(f, Head(paths)))
          THEN <<FileContextPart(f, Head(paths))>> ELSE <<>>)
         \o FileContextFileParts(f, Tail(paths))

\* req.contents.some(c => c.parts.some(p => p.inlineData || p.fileData))
HasFileParts(parts) == \E i \in 1..Len(parts) : IsFilePart(parts[i])

\* executeRequest up to the upstream call: the file context of the payload is
\* read and pushed as file parts onto the first user message
ExecPre(r) ==
    /\ pc[r] = "x_pre"
    /\ IF payload[r].file # <<>>
          /\ (payload[r].toolName = GEM_FILEOPS \/ ~HasFileParts(payload[r].parts))
       THEN /\ payload' = [payload EXCEPT ![r].parts =
                 @ \o FileContextFileParts(fs, payload[r].file)]
            /\ Did(r, "fs")
       ELSE UNCHANGED <<payload, did>>
    /\ Goto(r, "x_call")
    /\ UNCHANGED <<req, fs, clock, tmp, created, target, calls, execs, frame, resp,
                   out, failed, acc, pureVars>>

\* await model.generateContent(...) and what executeRequest does with the outcome
ExecCall(r) ==
    /\ pc[r] = "x_call"
    /\ \E o \in RawResponses \cup UpstreamErrors :
         LET f == frame[r]
             e == SdkErr(o)
             rl == ~o.ok /\ IsRateLimit(e)
         IN  /\ calls' = [calls EXCEPT ![r] =
                  Append(@, CallRecord(f.model, f.top, f.isRetry,
                                       payload[r].toolName = "gemini_search",
                                       payload[r].parts,
                                       IF o.ok THEN "ok"
                                       ELSE IF rl THEN "rate_limit" ELSE "error", o))]
             /\ IF o.ok
                THEN /\ resp' = [resp EXCEPT ![r] =
                          [raw |-> o, text |-> transformFromSdkResponse(o),
                           modelUsed |-> f.model, nil |-> FALSE]]
                     /\ execs' = [execs EXCEPT ![r][f.top].state = "returned",
                                               ![r][f.top].modelUsed = f.model,
                                               ![r][f.top].raw = o]
                     /\ frame' = [frame EXCEPT ![r] = NoFrame]
                     /\ Goto(r, "fmt")
                     /\ UNCHANGED <<out, failed>>
                ELSE IF Substitutes(e, f.isRetry, f.model)
                THEN \* return executeRequest(fallbackModelId, sdkPayload, true)
                     /\ frame' = [frame EXCEPT ![r] =
                          [model |-> FLASH_25_PREVIEW, isRetry |-> TRUE, top |-> f.top]]
                     /\ Goto(r, "x_pre")
                     /\ UNCHANGED <<resp, execs, out, failed>>
                ELSE \* McpError: rethrown by every catch block of the handler
                     /\ Throw(r, ClassifyError(e, f.model))
                     /\ execs' = [execs EXCEPT ![r][f.top].state = "raised"]
                     /\ frame' = [frame EXCEPT ![r] = NoFrame]
                     /\ Goto(r, EndPc(r))
                     /\ UNCHANGED resp
    /\ Did(r, "upstream")
    /\ UNCHANGED <<req, fs, clock, tmp, created, target, payload, acc, pureVars>>

(***************************************************************************)
(* handleReason (the reasoning tool).                                      *)
(***************************************************************************)
\* buildReasoningRequest with showSteps = true: one user message, the system
\* prompt hoisted into systemInstruction, no file context
buildReasoningRequest(problem) ==
    LET enhancedText ==
            "Please reason through this step-by-step with detailed explanations:\n\n"
            \o problem
    IN  [toolName |-> GEM_REASON, text |-> enhancedText, file |-> <<>>,
         parts |-> <<TextPart(enhancedText)>>, sys |-> TRUE]

ReasonStart(r) ==
    /\ pc[r] = GEM_REASON
    /\ IF ~req[r].hasArgs \/ ~IsString(req[r].text)
       THEN /\ Throw(r, McpErr("InvalidParams",
                                "Problem parameter is required and must be a string"))
            /\ Goto(r, "done")
            /\ UNCHANGED <<target, payload, frame, execs>>
       ELSE \* selectToolModel, buildReasoningRequest, executeRequest
            /\ target' = [target EXCEPT ![r] = selectToolModel(GEM_REASON, req[r])]
            /\ payload' = [payload EXCEPT ![r] =
                 buildReasoningRequest(req[r].text)]
            /\ ExecStart(r, selectToolModel(GEM_REASON, req[r]))
            /\ Goto(r, "x_pre")
            /\ UNCHANGED <<out, failed>>
    /\ UNCHANGED <<req, fs, clock, tmp, created, calls, resp, did, acc, pureVars>>

\* formatResponse after executeRequest returned, the inner catch (large-file
\* retry with gemini-1.5-pro) and the outer catch
ReasonFormat(r) ==
    /\ pc[r] = "fmt"
    /\ req[r].name = GEM_REASON
    /\ LET first == Len(execs[r]) = 1
           res == formatResponse(resp[r], IF first THEN target[r] ELSE PRO_15)
       IN  IF res.kind = "result"
           THEN /\ Return(r, res)
                /\ Goto(r, "done")
                /\ UNCHANGED <<frame, execs>>
           ELSE IF first /\ req[r].file_path.kind # "none"
                   /\ isLargeFile(req[r].file_path.paths)
                   /\ ~Includes(target[r], "1.5-pro")
           THEN /\ ExecStart(r, PRO_15)
                /\ Goto(r, "x_pre")
                /\ UNCHANGED <<out, failed>>
           ELSE /\ Throw(r, res.err)
                /\ Goto(r, "done")
                /\ UNCHANGED <<frame, execs>>
    /\ UNCHANGED <<req, fs, clock, tmp, created, target, calls, payload, resp, did,
                   acc, pureVars>>

(***************************************************************************)
(* handleCode, packDirectory and cleanupPackedFile (the code tool).        *)
(***************************************************************************)
NoAcc == [path |-> "", content |-> ""]

WriteFile(f, p, c) == [q \in DOMAIN f \cup {p} |-> IF q = p THEN c ELSE f[q]]

Unlink(f, p) == [q \in DOMAIN f \ {p} |-> f[q]]

\* path.join(os.tmpdir(), `repomix-${Date.now()}.xml`)
PackTempPath(now) == TmpDir \o "/repomix-" \o ToString(now) \o ".xml"

\* what repomix writes for a directory
PackedContent(dir) == "<repomix>" \o dir \o "</repomix>"

\* faulty variant of CodeValidation: nothing is checked
IsValid(req_) == "valid"

\* faulty variant of CodeValidation: a request giving both paths is rejected
RequireExactlyOne(q) ==
    IF ~q.hasArgs \/ ~Truthy(q.text) THEN "question parameter is required"
    ELSE IF Truthy(q.directory_path) = Truthy(q.codebase_path)
    THEN "Either directory_path or codebase_path parameter is required"
    ELSE "valid"

\* the two parameter checks of handleCode
CodeValidation(q) ==
    IF ~q.hasArgs \/ ~Truthy(q.text) THEN "question parameter is required"
    ELSE IF ~Truthy(q.directory_path) /\ ~Truthy(q.codebase_path)
    THEN "Either directory_path or codebase_path parameter is required"
    ELSE "valid"

CodeValidate(r) ==
    /\ pc[r] = GEM_CODE
    /\ IF CodeValidation(req[r]) # "valid"
       THEN /\ Throw(r, McpErr("InvalidParams", CodeValidation(req[r])))
            /\ Goto(r, "done")
       ELSE /\ Goto(r, IF Truthy(req[r].codebase_path) THEN "c_access" ELSE "c_pack_stat")
            /\ UNCHANGED <<out, failed>>
    /\ UNCHANGED <<req, fs, clock, tmp, created, target, calls, execs, frame, payload,
                   resp, did, acc, pureVars>>

\* await fs.access(path.resolve(codebase_path))
CodeAccess(r) ==
    /\ pc[r] = "c_access"
    /\ Did(r, "fs")
    /\ IF Accessible(fs, req[r].codebase_path)
       THEN /\ acc' = [acc EXCEPT ![r] =
                 [path |-> Resolve(req[r].codebase_path), content |-> ""]]
            /\ Goto(r, "c_build")
            /\ UNCHANGED <<out, failed>>
       ELSE /\ Throw(r, McpErr("InvalidParams",
                 "Codebase file not found: " \o req[r].codebase_path
                 \o " (normalized: " \o Resolve(req[r].codebase_path) \o ")"))
            /\ Goto(r, "done")
            /\ UNCHANGED acc
    /\ UNCHANGED <<req, fs, clock, tmp, created, target, calls, execs, frame, payload,
                   resp, pureVars>>

\* packDirectory: await fs.stat(directoryPath)
CodePackStat(r) ==
    /\ pc[r] = "c_pack_stat"
    /\ did' = [did EXCEPT ![r] = @ \cup {"fs", "pack"}]
    /\ LET dir == Resolve(req[r].directory_path)
       IN  IF ~Accessible(fs, dir)
           THEN /\ Throw(r, McpErr("InternalError",
                     "Failed to pack directory: Directory not found: " \o dir))
                /\ Goto(r, "done")
           ELSE IF fs[dir] # DirMark
           THEN /\ Throw(r, McpErr("InternalError",
                     "Failed to pack directory: Invalid directory path: " \o dir
                     \o " - Path is not a directory: " \o dir))
                /\ Goto(r, "done")
           ELSE /\ Goto(r, "c_pack_run")
                /\ UNCHANGED <<out, failed>>
    /\ UNCHANGED <<req, fs, clock, tmp, created, target, calls, execs, frame, payload,
                   resp, acc, pureVars>>

\* packDirectory: the temp name from Date.now(), then await executeCommand:
\* repomix writes the output file, fails, or exits without writing it
CodePackRun(r) ==
    /\ pc[r] = "c_pack_run"
    /\ \E outcome \in {"wrote", "failed", "silent"} :
         LET outputPath == PackTempPath(clock)
         IN  IF outcome = "failed"
             THEN /\ Throw(r, McpErr("InternalError",
                       "Failed to pack directory: Command failed"))
                  /\ Goto(r, "done")
                  /\ UNCHANGED <<fs, created, acc>>
             ELSE /\ acc' = [acc EXCEPT ![r] = [path |-> outputPath, content |-> ""]]
                  /\ Goto(r, "c_pack_check")
                  /\ IF outcome = "wrote"
                     THEN /\ fs' = WriteFile(fs, outputPath,
                                             PackedContent(req[r].directory_path))
                          /\ created' = [created EXCEPT ![r] = @ \cup {outputPath}]
                     ELSE UNCHANGED <<fs, created>>
                  /\ UNCHANGED <<out, failed>>
    /\ UNCHANGED <<req, clock, tmp, target, calls, execs, frame, payload, resp, did,
                   pureVars>>

\* packDirectory: await fs.access(outputPath); handleCode stores the result in
\* tempFilePath
CodePackCheck(r) ==
    /\ pc[r] = "c_pack_check"
    /\ IF Accessible(fs, acc[r].path)
       THEN /\ tmp' = [tmp EXCEPT ![r] = acc[r].path]
            /\ Goto(r, "c_verify")
            /\ UNCHANGED <<out, failed>>
       ELSE /\ Throw(r, McpErr("InternalError",
                 "Failed to pack directory: Repomix execution failed. Output file not found: "
                 \o acc[r].path))
            /\ Goto(r, "done")
            /\ UNCHANGED tmp
    /\ UNCHANGED <<req, fs, clock, created, target, calls, execs, frame, payload, resp,
                   did, acc, pureVars>>

\* handleCode: await fs.access(analysisPath) on the packed file
CodeVerify(r) ==
    /\ pc[r] = "c_verify"
    /\ IF Accessible(fs, acc[r].path)
       THEN /\ Goto(r, "c_build")
            /\ UNCHANGED <<out, failed>>
       ELSE /\ Throw(r, McpErr("InternalError", "Packed file not found: " \o acc[r].path))
            /\ Goto(r, EndPc(r))
    /\ UNCHANGED <<req, fs, clock, tmp, created, target, calls, execs, frame, payload,
                   resp, did, acc, pureVars>>

\* buildCodeRequest with codebase_path: question and XML in one user message,
\* no system instruction
buildCodeRequest(question, xmlContent) ==
    LET consolidatedText ==
            "Based *only* on the following XML codebase context, answer this question: "
            \o question \o "\n\n--- Codebase Context (XML) ---\n\n" \o xmlContent
    IN  [toolName |-> GEM_CODE, text |-> consolidatedText, file |-> <<>>,
         parts |-> <<TextPart(consolidatedText)>>, sys |-> FALSE]

\* selectToolModel, await buildCodeRequest(updatedArgs) (access, stat, readFile),
\* then executeRequest
CodeBuild(r) ==
    /\ pc[r] = "c_build"
    /\ Did(r, "fs")
    /\ target' = [target EXCEPT ![r] = selectToolModel(GEM_CODE, req[r])]
    /\ IF Readable(fs, acc[r].path)
       THEN /\ payload' = [payload EXCEPT ![r] =
                 buildCodeRequest(req[r].text, fs[acc[r].path])]
            /\ ExecStart(r, selectToolModel(GEM_CODE, req[r]))
            /\ Goto(r, "x_pre")
            /\ UNCHANGED <<out, failed>>
       ELSE /\ Throw(r, McpErr("InvalidParams", "Cannot read codebase file: "
                                \o acc[r].path))
            /\ Goto(r, EndPc(r))
            /\ UNCHANGED <<payload, frame, execs>>
    /\ UNCHANGED <<req, fs, clock, tmp, created, calls, resp, acc, pureVars>>

\* formatResponse after executeRequest returned, and the catch of handleCode
CodeFormat(r) ==
    /\ pc[r] = "fmt"
    /\ req[r].name = GEM_CODE
    /\ LET res == formatResponse(resp[r], target[r])
       IN  IF res.kind = "result" THEN Return(r, res) ELSE Throw(r, res.err)
    /\ Goto(r, EndPc(r))
    /\ UNCHANGED <<req, fs, clock, tmp, created, target, calls, execs, frame, payload,
                   resp, did, acc, pureVars>>

\* cleanupPackedFile(outputPath): unlink only what looks like a packer temp file
cleanupPackedFile(f, outputPath) ==
    IF Includes(outputPath, TmpDir) /\ Includes(outputPath, "repomix-")
       /\ outputPath \in DOMAIN f
    THEN Unlink(f, outputPath)
    ELSE f

\* the finally block of handleCode
CodeCleanup(r) ==
    /\ pc[r] = "c_cleanup"
    /\ fs' = cleanupPackedFile(fs, tmp[r])
    /\ Did(r, "fs")
    /\ Goto(r, "done")
    /\ UNCHANGED <<req, clock, tmp, created, target, calls, execs, frame, payload,
                   resp, out, failed, acc, pureVars>>

(***************************************************************************)
(* handleFileops and concatenateFiles (the file-operation tool).           *)
(***************************************************************************)
\* path.join(os.tmpdir(), `multifile-${Date.now()}.txt`)
ConcatTempPath(now) == TmpDir \o "/multifile-" \o ToString(now) \o ".txt"

Separator == "\n\n------- NEW FILE -------\n\n"

\* combinedContent of concatenateFiles for files i..n of filePaths
RECURSIVE Combined(_, _, _)
Combined(f, filePaths, i) ==
    IF i > Len(filePaths) THEN ""
    ELSE "\n\n===== FILE " \o ToString(i) \o ": " \o Basename(filePaths[i])
         \o " =====\n\n" \o f[Resolve(filePaths[i])]
         \o (IF i < Len(filePaths) THEN Separator ELSE "")
         \o Combined(f, filePaths, i + 1)

RECURSIVE JoinBasenames(_)
JoinBasenames(ps) ==
    IF ps = <<>> THEN ""
    ELSE Basename(Head(ps)) \o (IF Len(ps) > 1 THEN ", " ELSE "") \o JoinBasenames(Tail(ps))

\* args.instruction once the files were combined
CombinedNote(ps) ==
    "This is a combined file containing the contents of " \o ToString(Len(ps))
    \o " files: " \o JoinBasenames(ps) \o ".\n\n"

\* the file_path checks at the head of handleFileops
FileopsValidation(q) ==
    IF ~q.hasArgs \/ q.file_path.kind = "none" THEN "file_path parameter is required"
    ELSE IF q.file_path.kind \notin {"string", "array"}
    THEN "file_path must be a string or array of strings"
    ELSE "valid"

FileopsValidate(r) ==
    /\ pc[r] = GEM_FILEOPS
    /\ IF FileopsValidation(req[r]) # "valid"
       THEN /\ Throw(r, McpErr("InvalidParams", FileopsValidation(req[r])))
            /\ Goto(r, "done")
       ELSE /\ Goto(r, "f_check")
            /\ UNCHANGED <<out, failed>>
    /\ UNCHANGED <<req, fs, clock, tmp, created, target, calls, execs, frame, payload,
                   resp, did, acc, pureVars>>

\* await fileExists(path) for the single path or for each path of the array,
\* stopping at the first that is missing
FileopsCheck(r) ==
    /\ pc[r] = "f_check"
    /\ LET ps == req[r].file_path.paths
           missing == {i \in 1..Len(ps) : ~fileExists(fs, ps[i])}
       IN  /\ IF ps # <<>> THEN Did(r, "fs") ELSE UNCHANGED did
           /\ IF missing # {}
              THEN /\ Throw(r, McpErr("InvalidParams", "File not found: "
                         \o ps[CHOOSE i \in missing : \A j \in missing : i <= j]))
                   /\ Goto(r, "done")
              ELSE /\ Goto(r, IF req[r].file_path.kind = "array" /\ Len(ps) > 1
                              THEN "f_concat" ELSE "f_build")
                   /\ UNCHANGED <<out, failed>>
    /\ UNCHANGED <<req, fs, clock, tmp, created, target, calls, execs, frame, payload,
                   resp, acc, pureVars>>

\* concatenateFiles: the temp name from Date.now(), then await fs.readFile of
\* every file into combinedContent
FileopsConcat(r) ==
    /\ pc[r] = "f_concat"
    /\ LET ps == req[r].file_path.paths
       IN  IF \A i \in 1..Len(ps) : Readable(fs, ps[i])
           THEN /\ acc' = [acc EXCEPT ![r] =
                     [path |-> ConcatTempPath(clock), content |-> Combined(fs, ps, 1)]]
                /\ Goto(r, "f_write")
                /\ UNCHANGED <<out, failed>>
           ELSE /\ Throw(r, McpErr("InternalError",
                     "Error processing multiple files: cannot read file"))
                /\ Goto(r, "done")
                /\ UNCHANGED acc
    /\ UNCHANGED <<req, fs, clock, tmp, created, target, calls, execs, frame, payload,
                   resp, did, pureVars>>

\* concatenateFiles: await fs.writeFile(tempFilePath, combinedContent);
\* handleFileops then sets args.file_path = tempFilePath
FileopsWrite(r) ==
    /\ pc[r] = "f_write"
    /\ fs' = WriteFile(fs, acc[r].path, acc[r].content)
    /\ created' = [created EXCEPT ![r] = @ \cup {acc[r].path}]
    /\ tmp' = [tmp EXCEPT ![r] = acc[r].path]
    /\ Goto(r, "f_build")
    /\ UNCHANGED <<req, clock, target, calls, execs, frame, payload, resp, out, did,
                   failed, acc, pureVars>>

\* buildFileopsRequest(args): args.file_path is the temp file once combined
buildFileopsRequest(filePaths, instruction) ==
    [toolName |-> GEM_FILEOPS, text |-> instruction, file |-> filePaths,
     parts |-> <<TextPart(instruction)>>, sys |-> TRUE]

\* the prompt of the default operation (analyze) when no instruction is given
DefaultPrompt(firstPath) ==
    IF AfterLastDot(ToLower(firstPath)) = "pdf"
    THEN "Analyze this PDF document in detail. Identify the main themes, structure, key arguments, evidence presented, and overall quality of the content."
    ELSE "Analyze this content in detail. Identify the main themes, structure, key arguments, evidence presented, and overall quality of the content."

FileopsArgsPath(r) == IF tmp[r] # "" THEN <<tmp[r]>> ELSE req[r].file_path.paths

FileopsInstruction(r) ==
    IF tmp[r] # "" THEN CombinedNote(req[r].file_path.paths)
    ELSE DefaultPrompt(FileopsArgsPath(r)[1])

\* getFileTypeCategory(firstFilePath), selectToolModel, buildFileopsRequest
FileopsBuild(r) ==
    /\ pc[r] = "f_build"
    /\ IF req[r].file_path.paths = <<>>
       THEN \* file_path[0] is undefined: a TypeError from path.extname
            /\ Throw(r, RawErr("The \"path\" argument must be of type string. Received undefined"))
            /\ Goto(r, "done")
            /\ UNCHANGED <<target, payload>>
       ELSE /\ target' = [target EXCEPT ![r] = selectToolModel(GEM_FILEOPS, req[r])]
            /\ payload' = [payload EXCEPT ![r] =
                 buildFileopsRequest(FileopsArgsPath(r), FileopsInstruction(r))]
            /\ Goto(r, "f_preload")
            /\ UNCHANGED <<out, failed>>
    /\ UNCHANGED <<req, fs, clock, tmp, created, calls, execs, frame, resp, did, acc,
                   pureVars>>

\* await preparePartsWithFiles(file_path, instructionText) on the paths the
\* caller gave: one part per file, then executeRequest
FileopsPreload(r) ==
    /\ pc[r] = "f_preload"
    /\ payload' = [payload EXCEPT ![r].parts =
         preparePartsWithFiles(fs, req[r].file_path.paths, payload[r].text)]
    /\ Did(r, "fs")
    /\ ExecStart(r, target[r])
    /\ Goto(r, "x_pre")
    /\ UNCHANGED <<req, fs, clock, tmp, created, target, calls, resp, out, failed,
                   acc, pureVars>>

\* formatResponse after executeRequest returned, the inner catch (large-file
\* retry with gemini-1.5-pro) and the outer catch
FileopsFormat(r) ==
    /\ pc[r] = "fmt"
    /\ req[r].name = GEM_FILEOPS
    /\ LET first == Len(execs[r]) = 1
           res == formatResponse(resp[r], IF first THEN target[r] ELSE PRO_15)
       IN  IF res.kind = "result"
           THEN /\ Return(r, res)
                /\ Goto(r, "done")
                /\ UNCHANGED <<frame, execs, payload>>
           ELSE IF first /\ isLargeFile(req[r].file_path.paths) /\ target[r] # PRO_15
           THEN /\ payload' = [payload EXCEPT ![r] =
                     buildFileopsRequest(FileopsArgsPath(r), FileopsInstruction(r))]
                /\ ExecStart(r, PRO_15)
                /\ Goto(r, "x_pre")
                /\ UNCHANGED <<out, failed>>
           ELSE /\ Throw(r, res.err)
                /\ Goto(r, "done")
                /\ UNCHANGED <<frame, execs, payload>>
    /\ UNCHANGED <<req, fs, clock, tmp, created, target, calls, resp, did, acc,
                   pureVars>>

(***************************************************************************)
(* The model selector on its own: selectToolModel applied to an input.     *)
(***************************************************************************)
SelTools == ToolNames \cup {"gemini_analyze"}

SelModels ==
    DOMAIN MODEL_FALLBACKS
    \cup {Undef, "", "gemini-2.0-flash-001", "gemini-1.5-pro-002",
          "gemini-2.5-pro-exp-03-25", "gemini-exp-1206", "my-tuned-model"}

SelInputs ==
    {[toolName |-> t, model_id |-> m, use_large_context_model |-> l] :
        t \in SelTools, m \in SelModels, l \in BOOLEAN}

NoSel == [toolName |-> "", model_id |-> Undef, use_large_context_model |-> FALSE]

SelApply ==
    /\ selOut = ""
    /\ selOut' = selectToolModel(selIn.toolName, selIn)
    /\ UNCHANGED <<selIn, mainVars, fnVars>>

(***************************************************************************)
(* Specifications.                                                         *)
(***************************************************************************)
Idle(reqs, pcs) ==
    /\ req = reqs
    /\ pc = pcs
    /\ fs = InitFs
    /\ clock = 0
    /\ tmp = [r \in Reqs |-> ""]
    /\ created = [r \in Reqs |-> {}]
    /\ target = [r \in Reqs |-> ""]
    /\ calls = [r \in Reqs |-> <<>>]
    /\ execs = [r \in Reqs |-> <<>>]
    /\ frame = [r \in Reqs |-> NoFrame]
    /\ payload = [r \in Reqs |-> NoPayload]
    /\ resp = [r \in Reqs |-> NoResp]
    /\ out = [r \in Reqs |-> NoOut]
    /\ did = [r \in Reqs |-> {}]
    /\ failed = [r \in Reqs |-> FALSE]
    /\ acc = [r \in Reqs |-> NoAcc]

\* one tool request arrives at the server
Init ==
    /\ \E q \in ToolRequests :
         Idle([r \in Reqs |-> IF r = 1 THEN q ELSE NoRequest],
              [r \in Reqs |-> IF r = 1 THEN "recv" ELSE "off"])
    /\ selIn = NoSel
    /\ selOut = ""
    /\ fnIn = <<>>
    /\ fnOut = <<>>

Step(r) ==
    \/ Dispatch(r)
    \/ SearchValidate(r) \/ SearchFileCheck(r) \/ SearchCall(r)
    \/ ReasonStart(r) \/ ReasonFormat(r)
    \/ CodeValidate(r) \/ CodeAccess(r) \/ CodePackStat(r) \/ CodePackRun(r)
    \/ CodePackCheck(r) \/ CodeVerify(r) \/ CodeBuild(r) \/ CodeFormat(r)
    \/ CodeCleanup(r)
    \/ FileopsValidate(r) \/ FileopsCheck(r) \/ FileopsConcat(r) \/ FileopsWrite(r)
    \/ FileopsBuild(r) \/ FileopsPreload(r) \/ FileopsFormat(r)
    \/ ExecPre(r) \/ ExecCall(r)

Next == (\E r \in Reqs : Step(r)) \/ Tick

Spec == Init /\ [][Next]_vars

\* two requests that create temp files are in flight at the same time
ConcRequests ==
    {ToolRequest(GEM_CODE, TRUE, "how?", NoFile, "gemini-2.0-flash", "repo", Undef, FALSE),
     ToolRequest(GEM_FILEOPS, TRUE, Undef, FileArray(<<"a.txt", "b.txt">>), Undef,
                 Undef, Undef, FALSE)}

InitConc ==
    /\ \E q1 \in ConcRequests, q2 \in ConcRequests :
         Idle([r \in Reqs |-> IF r = 1 THEN q1 ELSE q2], [r \in Reqs |-> "recv"])
    /\ selIn = NoSel
    /\ selOut = ""
    /\ fnIn = <<>>
    /\ fnOut = <<>>

StepConc(r) ==
    \/ Dispatch(r)
    \/ CodeValidate(r) \/ CodePackStat(r) \/ CodePackRun(r) \/ CodePackCheck(r)
    \/ CodeVerify(r) \/ CodeBuild(r) \/ CodeFormat(r) \/ CodeCleanup(r)
    \/ FileopsValidate(r) \/ FileopsCheck(r) \/ FileopsConcat(r) \/ FileopsWrite(r)
    \/ FileopsBuild(r) \/ FileopsPreload(r) \/ FileopsFormat(r)
    \/ ExecPre(r) \/ ExecCall(r)

NextConc == (\E r \in Reqs : StepConc(r)) \/ Tick

SpecConc == InitConc /\ [][NextConc]_vars

InitSel ==
    /\ Idle([r \in Reqs |-> NoRequest], [r \in Reqs |-> "off"])
    /\ selIn \in SelInputs
    /\ selOut = ""
    /\ fnIn = <<>>
    /\ fnOut = <<>>

NextSel == SelApply

SpecSel == InitSel /\ [][NextSel]_vars

(***************************************************************************)
(* Content loader harness: createFilePartsBatch applied to a batch of      *)
(* paths over the initial file system.                                     *)
(***************************************************************************)
MaxBatch == 3

BatchPaths == {"a.txt", "b.txt", "missing.txt", "repo", "https://h/x.png"}

RECURSIVE SeqsUpTo(_, _)
SeqsUpTo(S, n) ==
    IF n = 0 THEN {<<>>}
    ELSE LET shorter == SeqsUpTo(S, n - 1)
         IN  shorter \cup {Append(q, x) : q \in {t \in shorter : Len(t) = n - 1}, x \in S}

BatchInputs ==
    {[fn |-> "createFilePartsBatch", paths |-> q] : q \in SeqsUpTo(BatchPaths, MaxBatch)}

BatchApply ==
    /\ fnOut = <<>>
    /\ fnIn.fn = "createFilePartsBatch"
    /\ fnOut' = <<createFilePartsBatch(InitFs, fnIn.paths)>>
    /\ UNCHANGED <<fnIn, mainVars, selVars>>

(***************************************************************************)
(* Formatter harness: formatResponse applied to any internal response      *)
(* (null and one without candidates included) and any raw response.        *)
(***************************************************************************)
FmtResponses ==
    {[raw |-> raw, text |-> t, modelUsed |-> mu, nil |-> FALSE] :
        raw \in RawResponses \cup {NoRaw}, t \in {"", "Paris (cand)."},
        mu \in {"", FLASH_25_PREVIEW}}
    \cup {[raw |-> raw, text |-> "", modelUsed |-> "", nil |-> TRUE] :
        raw \in RawResponses \cup {NoRaw}}

FmtInputs ==
    {[fn |-> "formatResponse", response |-> rs, modelId |-> m] :
        rs \in FmtResponses, m \in {FLASH_001, PRO_25_EXP, "my-tuned-model"}}

FmtApply ==
    /\ fnOut = <<>>
    /\ fnIn.fn = "formatResponse"
    /\ fnOut' = <<formatResponse(fnIn.response, fnIn.modelId)>>
    /\ UNCHANGED <<fnIn, mainVars, selVars>>

(***************************************************************************)
(* Round trip harness: a text-only request is built, transformed to the    *)
(* SDK format, answered by a raw response whose text() returns the text of *)
(* the request, and the raw response is transformed back.                  *)
(***************************************************************************)
\* buildSearchRequest({query, modelId, toolName}): the system prompt is hoisted
\* into systemInstruction, the user message holds the query as it is
buildSearchRequest(query) ==
    [toolName |-> GEM_SEARCH, text |-> query, file |-> <<>>,
     parts |-> <<TextPart(query)>>, sys |-> TRUE]

isFlashModel(modelId) == Includes(ToLower(modelId), "flash")

IsNonEmptyText(part) == part.kind = "text" /\ part.text # ""

\* transformToSdkFormat(internalRequest, modelId) of a request without file
\* context: the contents of the request when there are any, else one user
\* message with its non-empty text parts (" " when there are none)
transformToSdkFormat(internalRequest, modelId) ==
    LET texts == SelectSeq(internalRequest.parts, IsNonEmptyText)
        parts == IF texts = <<>> THEN <<TextPart(" ")>> ELSE texts
        userContents == IF internalRequest.parts = <<>> THEN <<>>
                        ELSE <<[role |-> "user", parts |-> internalRequest.parts]>>
    IN  [contents |-> IF Len(userContents) > 0 THEN userContents
                      ELSE <<[role |-> "user", parts |-> parts]>>,
         systemInstruction |-> internalRequest.sys,
         tools |-> internalRequest.toolName = GEM_SEARCH /\ isFlashModel(modelId)]

\* the hand-made raw response whose text() returns the text of the request
MatchingRaw(sdkRequest) ==
    [ok |-> TRUE, textKind |-> "string", text |-> sdkRequest.contents[1].parts[1].text,
     candText |-> "", textErr |-> ""]

RoundTrip(text, modelId) ==
    transformFromSdkResponse(MatchingRaw(transformToSdkFormat(buildSearchRequest(text), modelId)))

MaxFragments == 3

Fragments == {"Selecting", "\"...", "\n", "hi"}

RECURSIVE JoinAll(_)
JoinAll(q) == IF q = <<>> THEN "" ELSE Head(q) \o JoinAll(Tail(q))

RoundInputs ==
    {[fn |-> "roundTrip", text |-> JoinAll(q), modelId |-> m] :
        q \in SeqsUpTo(Fragments, MaxFragments), m \in {FLASH_001, PRO_25_EXP}}

RoundApply ==
    /\ fnOut = <<>>
    /\ fnIn.fn = "roundTrip"
    /\ fnOut' = <<RoundTrip(fnIn.text, fnIn.modelId)>>
    /\ UNCHANGED <<fnIn, mainVars, selVars>>

(***************************************************************************)
(* Classification harness: the catch block of executeRequest and           *)
(* handleApiError applied to one upstream failure.                         *)
(***************************************************************************)
\* handleApiError(error): the code of the GeminiError it returns, by the first
\* group of message tests that matches
handleApiError(e) ==
    LET HasAny(subs) == \E t \in subs : Includes(e.msg, t)
    IN  IF ~e.isErr THEN "UNKNOWN_ERROR"
        ELSE IF HasAny({"invalid", "validation", "parameter", "malformed", "bad request"})
        THEN "INVALID_REQUEST"
        ELSE IF HasAny({"auth", "key", "token", "credential", "api key", "unauthorized"})
        THEN "UNAUTHORIZED"
        ELSE IF HasAny({"permission", "access", "forbidden", "not allowed"})
        THEN "FORBIDDEN"
        ELSE IF HasAny({"not found", "404", "unknown model"})
                \/ (Includes(e.msg, "model") /\ Includes(e.msg, "exist"))
        THEN "NOT_FOUND"
        ELSE IF HasAny({"rate", "limit", "quota", "too many", "429", "exceeded", "throttl"})
        THEN "RATE_LIMIT_EXCEEDED"
        ELSE IF HasAny({"safety", "harmful", "filter", "blocked", "violat"})
        THEN "SAFETY_FILTER"
        ELSE IF HasAny({"server", "unavailable", "timeout", "overloaded", "500", "503",
                        "internal"})
        THEN "SERVER_ERROR"
        ELSE IF HasAny({"file", "image", "document", "format", "too large"})
        THEN "FILE_ERROR"
        ELSE "UNKNOWN_ERROR"

ClassInputs ==
    {[fn |-> "classify",
      e |-> [ok |-> FALSE, isErr |-> isErr, status |-> status, msg |-> msg],
      modelId |-> m, isRetry |-> isRetry] :
        isErr \in BOOLEAN, status \in {0, 404, 429},
        msg \in {"model not found", "rate limit exceeded", "rate limit: model not found",
                 "permission denied: invalid key", "boom"},
        m \in {PRO_25_EXP, FLASH_001}, isRetry \in BOOLEAN}

ClassApply ==
    /\ fnOut = <<>>
    /\ fnIn.fn = "classify"
    /\ fnOut' = <<[retry |-> Substitutes(SdkErr(fnIn.e), fnIn.isRetry, fnIn.modelId),
                   err |-> ClassifyError(SdkErr(fnIn.e), fnIn.modelId),
                   code |-> handleApiError(SdkErr(fnIn.e))]>>
    /\ UNCHANGED <<fnIn, mainVars, selVars>>

(***************************************************************************)
(* Text scan harness: findTextProperties applied to an object graph. An    *)
(* object is a node of a heap with the own fields text and child, in that  *)
(* order; a field holds nothing, a string, or a reference to an object, so *)
(* a graph may hold a cycle.                                               *)
(***************************************************************************)
IsSpace(c) == c \in {" ", "\n", "\t", "\r"}

\* String.prototype.trim
RECURSIVE Trim(_)
Trim(s) ==
    IF Len(s) = 0 THEN ""
    ELSE IF IsSpace(SubSeq(s, 1, 1)) THEN Trim(SubSeq(s, 2, Len(s)))
    ELSE IF IsSpace(SubSeq(s, Len(s), Len(s))) THEN Trim(SubSeq(s, 1, Len(s) - 1))
    ELSE s

NoValue == [t |-> "undefined", s |-> "", n |-> 0]

StrValue(s) == [t |-> "string", s |-> s, n |-> 0]

ObjValue(n) == [t |-> "object", s |-> "", n |-> n]

\* the default of the parameter maxDepth
maxDepth == 3

\* faulty variant of findTextProperties: one level more is scanned
RECURSIVE ScanOneLevelDeeper(_, _, _, _)
ScanOneLevelDeeper(heap, obj, maxD, currentDepth) ==
    IF currentDepth > maxD + 1 \/ obj.t # "object" THEN <<>>
    ELSE LET o == heap[obj.n]
             ScanKey(key) ==
                 IF key = "text" /\ o[key].t = "string" /\ Len(Trim(o[key].s)) > 10
                 THEN <<o[key].s>>
                 ELSE IF o[key].t = "object"
                 THEN ScanOneLevelDeeper(heap, o[key], maxD, currentDepth + 1)
                 ELSE <<>>
         IN  ScanKey("text") \o ScanKey("child")

\* findTextProperties(obj, maxDepth = 3, currentDepth = 0): the values of the
\* own 'text' fields whose trimmed length exceeds 10, the objects held by the
\* other fields (and by a 'text' field that holds no such string) scanned
\* one level down
RECURSIVE findTextProperties(_, _, _, _)
findTextProperties(heap, obj, maxD, currentDepth) ==
    IF currentDepth > maxD \/ obj.t # "object" THEN <<>>
    ELSE LET o == heap[obj.n]
             ScanKey(key) ==
                 IF key = "text" /\ o[key].t = "string" /\ Len(Trim(o[key].s)) > 10
                 THEN <<o[key].s>>
                 ELSE IF o[key].t = "object"
                 THEN findTextProperties(heap, o[key], maxD, currentDepth + 1)
                 ELSE <<>>
         IN  ScanKey("text") \o ScanKey("child")

ScanNodes == 5

LongText(i) == "text of node " \o ToString(i)

PaddedText == "   short   "

TextValue(choice, i) ==
    IF choice = "long" THEN StrValue(LongText(i))
    ELSE IF choice = "padded" THEN StrValue(PaddedText)
    ELSE IF choice = "root" THEN ObjValue(1)
    ELSE NoValue

\* the chains of n objects: each object's child is the next object, the last
\* object's child is nothing or any object of the chain (a cycle)
Heaps(n) ==
    {[i \in 1..n |-> [text |-> TextValue(tx[i], i),
                      child |-> IF i < n THEN ObjValue(i + 1) ELSE last]] :
        tx \in [1..n -> {"none", "padded", "long", "root"}],
        last \in {NoValue} \cup {ObjValue(j) : j \in 1..n}}

ScanInputs ==
    {[fn |-> "findTextProperties", heap |-> h, root |-> ObjValue(1)] :
        h \in UNION {Heaps(n) : n \in 1..ScanNodes}}
    \cup {[fn |-> "findTextProperties", heap |-> <<>>, root |-> v] :
        v \in {NoValue, StrValue(LongText(0))}}

ScanApply ==
    /\ fnOut = <<>>
    /\ fnIn.fn = "findTextProperties"
    /\ fnOut' = <<findTextProperties(fnIn.heap, fnIn.root, maxDepth, 0)>>
    /\ UNCHANGED <<fnIn, mainVars, selVars>>

(***************************************************************************)
(* File Classifier harness: getMimeType and getFileTypeCategory applied to *)
(* a file name behind a directory prefix or a URL base, with a query for   *)
(* the http(s) URLs.                                                       *)
(***************************************************************************)
FileNames == {"a.png", "A.PNG", "a.xyz", "a", ".png", "a.tar.gz", "a.py"}

DirPrefixes == {"", "dir/", "/abs/v1.2/"}

UrlBases == {"https://h/", "http://h.io/d/", "gs://bucket/", "gs://bucket/d/"}

MalformedBases == {"http://", "https://[bad/"}

ClassifierInputs ==
    {[fn |-> "classifyFile", pre |-> pre, name |-> n, query |-> ""] :
        pre \in DirPrefixes \cup UrlBases \cup MalformedBases, n \in FileNames}
    \cup {[fn |-> "classifyFile", pre |-> pre, name |-> n, query |-> q] :
        pre \in {"https://h/", "http://h.io/d/"}, n \in FileNames,
        q \in {"?f=b.png", "#top.txt"}}
    \cup {[fn |-> "classifyFile", pre |-> "", name |-> "", query |-> ""]}

ClassifiedPath(in) == in.pre \o in.name \o in.query

ClassifyFileApply ==
    /\ fnOut = <<>>
    /\ fnIn.fn = "classifyFile"
    /\ fnOut' = <<[mimeType |-> getMimeType(ClassifiedPath(fnIn)),
                   category |-> getFileTypeCategory(ClassifiedPath(fnIn))]>>
    /\ UNCHANGED <<fnIn, mainVars, selVars>>

(***************************************************************************)
(* The specification of the pure functions: one input is drawn, the        *)
(* function it names is applied once.                                      *)
(***************************************************************************)
InitFn ==
    /\ Idle([r \in Reqs |-> NoRequest], [r \in Reqs |-> "off"])
    /\ selIn = NoSel
    /\ selOut = ""
    /\ fnIn \in BatchInputs \cup FmtInputs \cup RoundInputs \cup ClassInputs
               \cup ScanInputs \cup ClassifierInputs
    /\ fnOut = <<>>

NextFn == BatchApply \/ FmtApply \/ RoundApply \/ ClassApply \/ ScanApply
          \/ ClassifyFileApply

SpecFn == InitFn /\ [][NextFn]_vars

\* the function fn was applied to fnIn and fnOut holds its result
Applied(fn) == fnOut # <<>> /\ fnIn.fn = fn

(***************************************************************************)
(* Properties.                                                             *)
(***************************************************************************)
Models(r) == {calls[r][i].model : i \in 1..Len(calls[r])}

Done(r) == pc[r] = "done"

RateLimited(c) == c.status = "rate_limit"

AdvancedTier(modelId) == Includes(modelId, "2.5-pro")

\* C2: when the first upstream call of an executeRequest invocation is
\* rate-limited on an advanced-tier (2.5-pro) model, exactly one further call
\* follows in that invocation, it names gemini-2.5-flash-preview-04-17, and its
\* response is what executeRequest returns; when the substituted call is
\* rate-limited, executeRequest raises and no call follows.
C2_OneSubstituteCall ==
    \A r \in Reqs : \A i \in 1..Len(calls[r]) :
        LET c == calls[r][i]
            n == Len(calls[r])
        IN  /\ (c.top > 0 /\ ~c.isRetry /\ RateLimited(c) /\ AdvancedTier(c.model)) =>
                 IF i = n
                 THEN /\ pc[r] \in {"x_pre", "x_call"}
                      /\ frame[r] = [model |-> FLASH_25_PREVIEW, isRetry |-> TRUE,
                                     top |-> c.top]
                 ELSE /\ calls[r][i + 1].model = FLASH_25_PREVIEW
                      /\ calls[r][i + 1].isRetry
                      /\ calls[r][i + 1].top = c.top
                      /\ \A j \in (i + 2)..n : calls[r][j].top # c.top
                      /\ calls[r][i + 1].status = "ok" =>
                           /\ execs[r][c.top].state = "returned"
                           /\ execs[r][c.top].raw = calls[r][i + 1].o
                           /\ execs[r][c.top].modelUsed = FLASH_25_PREVIEW
            /\ (c.isRetry /\ RateLimited(c)) =>
                 /\ i = n
                 /\ execs[r][c.top].state = "raised"
                 /\ frame[r] = NoFrame
                 /\ out[r].kind = "thrown"
                 /\ StartsWith(out[r].err.msg, "Rate limit exceeded for " \o FLASH_25_PREVIEW)

C2_Witness ==
    \E r \in Reqs :
        /\ Done(r)
        /\ Len(calls[r]) = 2
        /\ RateLimited(calls[r][1]) /\ AdvancedTier(calls[r][1].model)
        /\ calls[r][2].isRetry /\ calls[r][2].status = "ok"
        /\ out[r].kind = "result" /\ ~out[r].isError

SingleMissingPath(r) ==
    /\ req[r].name = GEM_FILEOPS
    /\ req[r].hasArgs
    /\ req[r].file_path.kind = "string"
    /\ Resolve(req[r].file_path.paths[1]) \notin DOMAIN fs

MissingRequired(q) ==
    CASE q.name \in {GEM_SEARCH, GEM_REASON} -> ~q.hasArgs \/ q.text = Undef
      [] q.name = GEM_CODE ->
            \/ ~q.hasArgs \/ ~Truthy(q.text)
            \/ (~Truthy(q.directory_path) /\ ~Truthy(q.codebase_path))
      [] q.name = GEM_FILEOPS -> ~q.hasArgs \/ q.file_path.kind = "none"
      [] OTHER -> FALSE

\* C5: in every handler a request that misses a required argument ends in an
\* InvalidParams McpError, and no file-system access, no packer run and no
\* upstream call is ever made for it.
C5_ValidationBeforeIO ==
    \A r \in Reqs :
        MissingRequired(req[r]) =>
            /\ did[r] = {} /\ calls[r] = <<>> /\ created[r] = {}
            /\ pc[r] \in {"recv", req[r].name, "done"}
            /\ Done(r) => /\ out[r].kind = "thrown" /\ out[r].err.mcp
                          /\ out[r].err.code = "InvalidParams"

C5_Witness ==
    \E r \in Reqs :
        /\ Done(r) /\ req[r].name = GEM_CODE /\ Truthy(req[r].text)
        /\ MissingRequired(req[r])
        /\ out[r].kind = "thrown" /\ out[r].err.code = "InvalidParams"

\* C6: a search call with a query and no model override names
\* gemini-2.0-flash-001 in its upstream call, and the text of the first
\* content block it returns begins with the banner 'Model used: <that id>'.
C6_SearchBanner ==
    \A r \in Reqs :
        (/\ Done(r) /\ req[r].name = GEM_SEARCH /\ req[r].hasArgs
         /\ IsString(req[r].text) /\ ~Truthy(req[r].model_id)
         /\ out[r].kind = "result" /\ ~out[r].isError) =>
            /\ calls[r][1].model = FLASH_001
            /\ \/ StartsWith(out[r].text, "**Model used: " \o FLASH_001)
               \/ StartsWith(out[r].text, "Model used: " \o FLASH_001)

Formatted(r) ==
    /\ Done(r)
    /\ req[r].name \in {GEM_REASON, GEM_CODE, GEM_FILEOPS}
    /\ out[r].kind = "result" /\ ~out[r].isError

\* C7: in a result built by formatResponse (reason, code, fileops) the
\* 'Model used' banner and the metadata modelId name the model of the upstream
\* call that produced the text: the substitute after a substitution (never the
\* model first requested), the requested model when there was none.
C7_BannerNamesProducer ==
    \A r \in Reqs :
        Formatted(r) =>
            LET last == calls[r][Len(calls[r])]
            IN  /\ last.status = "ok"
                /\ out[r].modelId = last.model
                /\ StartsWith(out[r].text, "**Model used: " \o last.model \o "**\n\n")
                /\ Len(calls[r]) = 1 => out[r].modelId = target[r]
                /\ last.isRetry => /\ out[r].modelId = FLASH_25_PREVIEW
                                   /\ out[r].modelId # target[r]

C7_Witness ==
    \E r \in Reqs :
        /\ Formatted(r)
        /\ Len(calls[r]) = 2 /\ calls[r][2].isRetry
        /\ out[r].modelId = FLASH_25_PREVIEW
        /\ target[r] = PRO_25_EXP

\* C8: once a code or fileops request has completed, every temporary file it
\* created (the packed repository, the multi-file scratch file) is deleted.
C8_TempFilesDeleted ==
    \A r \in Reqs :
        (Done(r) /\ req[r].name \in {GEM_CODE, GEM_FILEOPS}) =>
            \A p \in created[r] : p \notin DOMAIN fs

\* C9: two requests that run concurrently never use the same temporary file
\* path.
C9_DistinctTempPaths ==
    \A r1 \in Reqs : \A r2 \in Reqs \ {r1} :
        created[r1] \cap created[r2] = {}

C11_NeverTheKey ==
    (selOut # "" /\ selIn.toolName \in ToolNames
     /\ selIn.model_id \in DOMAIN MODEL_FALLBACKS) =>
        /\ selOut = MODEL_FALLBACKS[selIn.model_id]
        /\ selOut # selIn.model_id

\* C11 (amended): selecting with a key of the fallback table as the override
\* returns the table's entry for it; the entry differs from the key for every
\* key but gemini-2.5-flash-preview-04-17, which the table maps to itself and
\* which is therefore returned unchanged.
C11_TableEntry ==
    (selOut # "" /\ selIn.toolName \in ToolNames
     /\ selIn.model_id \in DOMAIN MODEL_FALLBACKS) =>
        /\ selOut = MODEL_FALLBACKS[selIn.model_id]
        /\ selOut = selIn.model_id <=> selIn.model_id = "gemini-2.5-flash-preview-04-17"

C11_Witness ==
    /\ selIn.toolName = GEM_REASON
    /\ selIn.model_id = "gemini-1.5-flash"
    /\ selOut = FLASH_001

Missing(ps) == {i \in 1..Len(ps) : ~Accessible(InitFs, ps[i])}

Unreadable(ps) == {i \in 1..Len(ps) : Accessible(InitFs, ps[i]) /\ ~Readable(InitFs, ps[i])}

TextParts(parts) == {i \in 1..Len(parts) : parts[i].kind = "text"}

SeveralWithMissing(r) ==
    /\ req[r].name = GEM_FILEOPS
    /\ req[r].hasArgs
    /\ req[r].file_path.kind = "array"
    /\ Len(req[r].file_path.paths) > 1
    /\ \E i \in 1..Len(req[r].file_path.paths) : ~Accessible(InitFs, req[r].file_path.paths[i])
    /\ \E i \in 1..Len(req[r].file_path.paths) : Readable(InitFs, req[r].file_path.paths[i])

\* C13: a fileops request with several paths of which some do not exist is not
\* aborted: an upstream call is made whose user message holds the content of
\* every file that exists and, for every missing file, an error-text part.
C13_MissingFilesInline ==
    \A r \in Reqs :
        (Done(r) /\ SeveralWithMissing(r)) =>
            /\ calls[r] # <<>>
            /\ \A i \in 1..Len(req[r].file_path.paths) :
                 LET p == req[r].file_path.paths[i]
                     sent == calls[r][1].parts
                 IN  \E j \in 1..Len(sent) :
                        IF Readable(InitFs, p)
                        THEN sent[j].kind = "inlineData"
                             /\ sent[j].data = Base64(InitFs[Resolve(p)])
                        ELSE sent[j].kind = "text" /\ Includes(sent[j].text, p)

\* C14: formatResponse never throws, whatever the internal response (null,
\* undefined, no candidates) and the raw response: it always returns a
\* ToolResult, with the error flag set when it failed internally.
C14_FormatNeverThrows ==
    Applied("formatResponse") => fnOut[1].kind = "result"

SeveralFiles(r) ==
    /\ req[r].name = GEM_FILEOPS
    /\ req[r].hasArgs
    /\ req[r].file_path.kind = "array"
    /\ Len(req[r].file_path.paths) > 1

CombinedPart(r) ==
    InlineDataPart("text/plain", Base64(Combined(InitFs, req[r].file_path.paths, 1)))

\* C15: in a fileops request with more than one file the user message of every
\* upstream call carries the combined document (every file under its header,
\* in input order, with separators) and carries it in place of the individual
\* files: it is the only file part of the message.
C15_CombinedInPlaceOfFiles ==
    \A r \in Reqs :
        SeveralFiles(r) =>
            \A i \in 1..Len(calls[r]) :
                LET sent == calls[r][i].parts
                IN  /\ \E j \in 1..Len(sent) : sent[j] = CombinedPart(r)
                    /\ \A j \in 1..Len(sent) : IsFilePart(sent[j]) => sent[j] = CombinedPart(r)

\* the part of C15 that holds: the combined document is part of every upstream
\* call of such a request (next to the individual files)
C15_CombinedIsSent ==
    \A r \in Reqs :
        SeveralFiles(r) =>
            \A i \in 1..Len(calls[r]) :
                \E j \in 1..Len(calls[r][i].parts) : calls[r][i].parts[j] = CombinedPart(r)

\* C16 (as stated): the round trip gives back the input text, for every input
\* text.
C16_RoundTripIdentity ==
    Applied("roundTrip") => fnOut[1] = fnIn.text

\* C16 (amended): the round trip gives back the input text for every input
\* text that is not empty and does not contain both 'Selecting' and '"...';
\* the empty text comes back as "[Unable to extract text from response]", and
\* a text with both markers comes back with its line breaks escaped.
C16_RoundTripUnlessRewritten ==
    Applied("roundTrip") =>
        fnOut[1] =
            IF fnIn.text = "" THEN "[Unable to extract text from response]"
            ELSE IF Includes(fnIn.text, "Selecting") /\ Includes(fnIn.text, "\"...")
            THEN EscapeNewlines(fnIn.text)
            ELSE fnIn.text

C16_Witness ==
    /\ Applied("roundTrip")
    /\ fnIn.text = "hi\nSelecting"
    /\ fnOut = <<"hi\nSelecting">>

\* C17: the substitute call made after a rate limit carries the payload of the
\* failed original call: the same parts, nothing added, dropped or duplicated.
C17_SubstituteSamePayload ==
    \A r \in Reqs :
        \A i \in 1..Len(calls[r]) : \A j \in 1..Len(calls[r]) :
            (/\ calls[r][i].top = calls[r][j].top /\ calls[r][i].top # 0
             /\ ~calls[r][i].isRetry /\ calls[r][j].isRetry) =>
                calls[r][j].parts = calls[r][i].parts

\* the part of C17 that holds: the reason and code tools, whose payload names
\* no file context
C17_SamePayloadWithoutFileContext ==
    \A r \in Reqs :
        req[r].name \in {GEM_REASON, GEM_CODE} =>
            \A i \in 1..Len(calls[r]) : \A j \in 1..Len(calls[r]) :
                (/\ calls[r][i].top = calls[r][j].top
                 /\ ~calls[r][i].isRetry /\ calls[r][j].isRetry) =>
                    calls[r][j].parts = calls[r][i].parts

\* a call that failed and is not the rate-limited call on an advanced-tier
\* model that executeRequest recovers from
Unrecovered(c) ==
    /\ c.status # "ok"
    /\ ~(RateLimited(c) /\ AdvancedTier(c.model) /\ ~c.isRetry)

ProtocolCodes == {"InvalidParams", "InternalError"}

Raised(r) == execs[r] # <<>> /\ execs[r][Len(execs[r])].state = "raised"

\* C19: whenever executeRequest ends by raising (after an Error of any class,
\* a thrown value that is no Error, or a failure of the substitute call), what
\* it raises is a protocol error (McpError) with a protocol error code; no raw
\* SDK exception leaves it.
C19_OnlyProtocolErrors ==
    \A r \in Reqs :
        Raised(r) =>
            /\ out[r].kind = "thrown"
            /\ out[r].err.mcp
            /\ out[r].err.code \in ProtocolCodes

C19_Witness ==
    \E r \in Reqs :
        /\ Raised(r)
        /\ Len(calls[r]) = 2
        /\ calls[r][2].isRetry
        /\ ~calls[r][2].o.ok /\ ~calls[r][2].o.isErr
        /\ out[r].err.code = "InternalError"

\* the not-found test and the rate-limit test of executeRequest both pass
NotFoundAndRateLimited(e) ==
    /\ e.isErr
    /\ Includes(e.msg, "not found") \/ e.status = 404
    /\ e.status = 429 \/ Includes(ToLower(e.msg), "rate limit")

\* C20: a failure that passes the tests of several categories is classified as
\* the first of them in the order invalid-request, unauthorized, forbidden,
\* not-found, rate-limited, ...: a failure that is both not-found and
\* rate-limited is treated as not-found by executeRequest (no substitution,
\* the not-found error is raised).
C20_NotFoundBeforeRateLimit ==
    (Applied("classify") /\ NotFoundAndRateLimited(fnIn.e)) =>
        /\ ~fnOut[1].retry
        /\ fnOut[1].err.msg = "Model " \o fnIn.modelId
             \o " not found or not supported. Please try a different model."

\* the part of C20 that holds: handleApiError, which executeRequest does not
\* call, tests not-found before rate-limited
C20_HandleApiErrorOrder ==
    (Applied("classify") /\ fnIn.e.isErr
     /\ Includes(fnIn.e.msg, "not found") /\ Includes(fnIn.e.msg, "rate")) =>
        fnOut[1].code = "NOT_FOUND"

\* C21: for every tool, when the caller gives a model_id override, the first
\* upstream call of the request names the fallback-table resolution of that
\* override, whatever the other arguments are.
C21_OverrideResolved ==
    \A r \in Reqs :
        (req[r].name \in ToolNames /\ Truthy(req[r].model_id) /\ calls[r] # <<>>) =>
            calls[r][1].model = getUsableModelId(req[r].model_id)

\* the part of C21 that holds: the tools that select through selectToolModel
C21_OverrideResolvedBySelector ==
    \A r \in Reqs :
        (req[r].name \in {GEM_REASON, GEM_CODE, GEM_FILEOPS} /\ Truthy(req[r].model_id)
         /\ calls[r] # <<>>) =>
            calls[r][1].model = getUsableModelId(req[r].model_id)

\* the request is about to be handed to generateContent by executeRequest
AtUpstreamCall(r) == pc[r] = "x_call"

\* C22: for every request produced by a request builder the message list
\* handed to the upstream call holds user parts only (the system message is
\* hoisted), and the system instruction is present, every builder having a
\* non-blank system text.
C22_SystemInstructionHoisted ==
    \A r \in Reqs :
        AtUpstreamCall(r) =>
            /\ payload[r].parts # <<>>
            /\ payload[r].sys

\* the part of C22 that holds: the reason and fileops builders
C22_HoistedByBuildRequest ==
    \A r \in Reqs :
        (AtUpstreamCall(r) /\ req[r].name \in {GEM_REASON, GEM_FILEOPS}) =>
            /\ payload[r].parts # <<>>
            /\ payload[r].sys

\* C23: every payload built for a code request whose repository document was
\* read carries the single consolidated user message (question and document)
\* and the code-analysis system prompt.
C23_CodeSystemPrompt ==
    \A r \in Reqs :
        (AtUpstreamCall(r) /\ req[r].name = GEM_CODE) =>
            /\ Len(payload[r].parts) = 1
            /\ payload[r].parts[1].kind = "text"
            /\ Includes(payload[r].parts[1].text, req[r].text)
            /\ payload[r].toolName = GEM_CODE /\ payload[r].sys

\* the part of C23 that holds: the single consolidated user message
C23_CodeConsolidatedMessage ==
    \A r \in Reqs :
        (AtUpstreamCall(r) /\ req[r].name = GEM_CODE) =>
            /\ Len(payload[r].parts) = 1
            /\ payload[r].parts[1].kind = "text"
            /\ Includes(payload[r].parts[1].text, req[r].text)

CodeWithQuestion(r) ==
    req[r].name = GEM_CODE /\ req[r].hasArgs /\ Truthy(req[r].text)

BothPaths(r) == Truthy(req[r].directory_path) /\ Truthy(req[r].codebase_path)

NeitherPath(r) == ~Truthy(req[r].directory_path) /\ ~Truthy(req[r].codebase_path)

InvalidRequestEnd(r) ==
    /\ out[r].kind = "thrown"
    /\ out[r].err.mcp
    /\ out[r].err.code = "InvalidParams"

C25_GroundingOnlyWhenEligible ==
    \A r \in Reqs : \A i \in 1..Len(calls[r]) :
        calls[r][i].tools =>
            /\ req[r].name = GEM_SEARCH
            /\ isFlashModel(calls[r][i].model)

\* C25 (the part that holds): only a search request's upstream call carries
\* the search-grounding tool declaration; no call issued by executeRequest
\* for the reason, code and fileops tools carries it, first or substitute.
C25_GroundingOnlyForSearch ==
    \A r \in Reqs : \A i \in 1..Len(calls[r]) :
        calls[r][i].tools <=> req[r].name = GEM_SEARCH


\* the objects that lie within d references of the objects of S
RECURSIVE ReachWithin(_, _, _)
ReachWithin(heap, S, d) ==
    IF d = 0 THEN S
    ELSE ReachWithin(heap,
             S \cup UNION {{heap[n][k].n :
                                k \in {j \in {"text", "child"} : heap[n][j].t = "object"}} :
                            n \in S},
             d - 1)

ScanRoots(in) == IF in.root.t = "object" THEN {in.root.n} ELSE {}

\* C26: findTextProperties ends on every input, a cyclic graph included (it
\* visits at most 2^(maxDepth+1) - 1 objects, so returns at most that many
\* values), and every value it returns is the value of a field named 'text',
\* longer than 10 characters, of an object within nesting depth 3 of the
\* scanned root; the text of an object that lies only deeper is never
\* returned, and a root that is no object gives nothing.
C26_ScanBounded ==
    Applied("findTextProperties") =>
        /\ Len(fnOut[1]) <= 15
        /\ \A i \in 1..Len(fnOut[1]) :
              /\ Len(fnOut[1][i]) > 10
              /\ \E n \in ReachWithin(fnIn.heap, ScanRoots(fnIn), maxDepth) :
                    fnIn.heap[n].text = StrValue(fnOut[1][i])

\* a cycle of five objects that all hold a long text: the scan has ended and
\* returned the texts of the root and of the three levels below it, not the
\* text of the object at depth 4
C26_Witness ==
    /\ Applied("findTextProperties")
    /\ fnIn.root.t = "object"
    /\ Len(fnIn.heap) = 5
    /\ \A i \in 1..5 : fnIn.heap[i].text = StrValue(LongText(i))
    /\ fnIn.heap[5].child = ObjValue(1)
    /\ fnOut[1] = <<LongText(1), LongText(2), LongText(3), LongText(4)>>


WellFormedPrefix == fnIn.pre \in DirPrefixes \cup UrlBases

\* C27: the File Classifier's result depends on the extension alone: a file
\* name behind a directory prefix or a URL base gets the MIME type and the
\* category that the bare file name gets.
C27_ClassifiedByExtension ==
    (Applied("classifyFile") /\ WellFormedPrefix) =>
        /\ fnOut[1].mimeType = getMimeType(fnIn.name)
        /\ fnOut[1].category = getFileTypeCategory(fnIn.name)

\* C27 (the part that holds): the MIME type depends on the extension alone,
\* whatever directories, URL base, query or fragment surround the file name.
C27_MimeByExtension ==
    (Applied("classifyFile") /\ WellFormedPrefix) =>
        fnOut[1].mimeType = getMimeType(fnIn.name)

UnknownExtension ==
    \/ ToLower(ExtName(fnIn.name)) \notin DOMAIN MIME_TYPES
    \/ fnIn.pre \in MalformedBases

\* C28: for every path or URL whose extension is not in MIME_TYPES, a
\* malformed URL included, the File Classifier returns application/octet-stream
\* and the category "unknown".
C28_UnknownCategory ==
    (Applied("classifyFile") /\ UnknownExtension /\ ClassifiedPath(fnIn) # "") =>
        /\ fnOut[1].mimeType = "application/octet-stream"
        /\ fnOut[1].category = "unknown"

\* C28 (as the code has it): for every non-empty path or URL whose extension
\* is not in MIME_TYPES, a malformed URL included, getMimeType returns
\* application/octet-stream and getFileTypeCategory returns a category without
\* raising: "binary", the category of application/octet-stream, for a bare
\* file name, and "unknown" for a path or URL that holds a '/'.
C28_GenericBinary ==
    (Applied("classifyFile") /\ UnknownExtension /\ ClassifiedPath(fnIn) # "") =>
        /\ fnOut[1].mimeType = "application/octet-stream"
        /\ fnOut[1].category =
              IF Includes(ClassifiedPath(fnIn), "/") THEN "unknown" ELSE "binary"

\* a bare file name with an unknown extension was classified
C28_Witness ==
    /\ Applied("classifyFile")
    /\ ClassifiedPath(fnIn) = "a.xyz"
    /\ fnOut[1] = [mimeType |-> "application/octet-stream", category |-> "binary"]


FileopsWithFiles(r) == req[r].name = GEM_FILEOPS /\ req[r].hasArgs

\* the parts of a user message that are not its instruction text
AttachedParts(parts) ==
    {j \in 1..Len(parts) : IsFilePart(parts[j]) \/ StartsWith(parts[j].text, "[Error")}

\* C29: in every upstream call made for a fileops request, the first call and
\* a substitute call alike, each input file contributes exactly one part to
\* the user message: the message holds as many attached parts as the request
\* names files, and no two of them are equal.
C29_OnePartPerFile ==
    \A r \in Reqs :
        FileopsWithFiles(r) =>
            \A i \in 1..Len(calls[r]) :
                LET sent == calls[r][i].parts
                IN  /\ Cardinality(AttachedParts(sent)) = Len(req[r].file_path.paths)
                    /\ \A j, k \in AttachedParts(sent) : sent[j] = sent[k] => j = k

\* the files that a step deletes or changes
Touched == {p \in DOMAIN fs : p \notin DOMAIN fs' \/ fs'[p] # fs[p]}

\* C30: a code request never deletes or modifies a file it did not create:
\* every file that a step of a code request deletes or changes (the packer
\* run, the cleanup of the finally block) was written by this request's own
\* packer run, so the caller's codebase_path file is left as it was.
C30_TouchesOwnFilesOnly ==
    [][\A r \in Reqs :
          (req[r].name = GEM_CODE /\ pc'[r] # pc[r]) => Touched \subseteq created[r]]_vars

\* C30 (the part that holds): no file that was there when the requests
\* arrived, the caller's codebase_path file included, is ever deleted or
\* changed.
C30_InputFilesUntouched ==
    \A p \in DOMAIN InitFs : p \in DOMAIN fs /\ fs[p] = InitFs[p]


====
